---- MODULE Spec2Model ----
(***************************************************************************)
(* qbtui: a terminal dashboard that mirrors a remote qBittorrent server.   *)
(*                                                                         *)
(* Specifications over one state:                                          *)
(*   Spec          the Sync Engine (ApiHandler::reload, ApiHandler::sync)  *)
(*                 as the dispatcher runs it step by step, one step per    *)
(*                 hold of the snapshot lock, interleaved with the render  *)
(*                 loop's category selection and drawing;                  *)
(*   SpecConc      the render loop, the dispatcher task, the snapshot lock *)
(*                 and the two bounded queues, one step per suspension     *)
(*                 point; SpecConcFair adds the scheduling;                *)
(*   SpecDelta     the merging steps of sync alone, on wider records;      *)
(*   SpecStart     the startup login and the first reload;                 *)
(*   SpecFiles     the Files arm of handle alone;                          *)
(*   SpecInput     the input handlers of the render loop, one input event  *)
(*                 at a time on a snapshot with its view state.            *)
(***************************************************************************)
EXTENDS Integers, Sequences, FiniteSets

\* ------------------------------------------------------------------ bounds
MaxRid == 1
MaxCategories == 2
MaxAttempts == 2
\* The two channels have capacity 32 (main.rs:80-81); the model runs them smaller.
ApiQueueCap == 2
UiQueueCap == 1

\* ------------------------------------------------------- value universes
Hashes == {"h1", "h2"}
Names == {"B", "a"}
ProgressValues == {0, 1}

\* Option<T>: None is the empty tuple, Some(v) the one-element tuple.
None == <<>>
Some(v) == <<v>>
IsSome(o) == Len(o) = 1
Unwrap(o) == o[1]
OptionOf(S) == {None} \cup {Some(v) : v \in S}

Range(s) == {s[i] : i \in 1..Len(s)}

\* Sequences over S of length at most n.
SeqUpTo(S, n) == UNION {[1..k -> S] : k \in 0..n}

\* ------------------------------------------------------ string ordering
\* Byte value of the first character (Rust compares strings bytewise).
Ordinal(name) == CASE name = "B" -> 66 [] name = "a" -> 97 [] name = "b" -> 98

to_lowercase(name) == CASE name = "B" -> "b" [] name = "a" -> "a" [] name = "b" -> "b"

OrdinalKey(name) == Ordinal(name)
LowercaseKey(name) == Ordinal(to_lowercase(name))

Count(s, x) == Cardinality({i \in 1..Len(s) : s[i] = x})

\* The rearrangements of s.
Rearrangements(s) ==
    {t \in [1..Len(s) -> Range(s)] : \A x \in Range(s) : Count(t, x) = Count(s, x)}

\* Vec::sort_unstable on strings: ascending byte order (elements that compare
\* equal are equal strings, so the instability cannot be observed).
sort_unstable(s) ==
    CHOOSE t \in Rearrangements(s) :
        \A i \in 1..(Len(s) - 1) : OrdinalKey(t[i]) <= OrdinalKey(t[i + 1])

\* sort_by_key(|a| a.to_lowercase()): ascending by the lower-cased name.
sort_by_key_lowercase(s) ==
    CHOOSE t \in Rearrangements(s) :
        \A i \in 1..(Len(s) - 1) : LowercaseKey(t[i]) <= LowercaseKey(t[i + 1])

\* Some enumeration of a set as a sequence (HashMap::into_keys order).
SetToSeq(S) == CHOOSE t \in [1..Cardinality(S) -> S] : Range(t) = S

Orderings(S) == {t \in [1..Cardinality(S) -> S] : Range(t) = S}

\* ---------------------------------------------------------------- types
TorrentInfo == [hash : Hashes, progress : ProgressValues]
TorrentInfoSync == [progress : OptionOf(ProgressValues)]
TransferInfo == [use_alt_speed_limits : BOOLEAN]
TransferInfoSync == [use_alt_speed_limits : OptionOf(BOOLEAN)]

\* SelectedCategory: All | Uncategorized | Category(i)
SelectedAll == <<"All">>
SelectedUncategorized == <<"Uncategorized">>
SelectedCategory(i) == <<"Category", i>>

HashSet(ts) == {ts[i].hash : i \in 1..Len(ts)}
DistinctHashes(ts) == \A i, j \in 1..Len(ts) : ts[i].hash = ts[j].hash => i = j

\* Position of a hash in the server's listing order.
HashOrdinal(hash) == CASE hash = "h1" -> 1 [] hash = "h2" -> 2

\* Job lists the server can return: every hash at most once, in listing order.
TorrentLists ==
    {ts \in SeqUpTo(TorrentInfo, Cardinality(Hashes)) :
        \A i \in 1..(Len(ts) - 1) : HashOrdinal(ts[i].hash) < HashOrdinal(ts[i + 1].hash)}

\* The same types with more of their fields, for the steps of sync taken alone:
\* two fields a delta can carry and, for a job, one it cannot (num_seeds).
JobStates == {"downloading", "pausedDL"}
SeedCounts == {0, 1}
SpeedValues == {0, 1}
TorrentInfoWide ==
    [hash : Hashes, progress : ProgressValues, state : JobStates, num_seeds : SeedCounts]
TorrentInfoSyncWide == [progress : OptionOf(ProgressValues), state : OptionOf(JobStates)]
TransferInfoWide == [dl_info_speed : SpeedValues, use_alt_speed_limits : BOOLEAN]
TransferInfoSyncWide ==
    [dl_info_speed : OptionOf(SpeedValues), use_alt_speed_limits : OptionOf(BOOLEAN)]
TorrentListsWide ==
    {ts \in SeqUpTo(TorrentInfoWide, Cardinality(Hashes)) :
        \A i \in 1..(Len(ts) - 1) : HashOrdinal(ts[i].hash) < HashOrdinal(ts[i + 1].hash)}

\* Outcomes of the four concurrent fetches of reload (try_join!).
ReloadResults ==
    [ok : {FALSE}, err : {"External", "NotAuthenticated"}]
    \cup [ok : {TRUE}, torrents_info : TorrentLists,
          categories : SUBSET Names, mode : {"Global", "Alternative"}]

VARIABLES
    app,            \* the Shared Snapshot (App behind Arc<Mutex<..>>)
    rid,            \* ApiHandler.rid, the delta-sync cursor
    pc,             \* where the dispatcher is inside reload / sync
    should_reload,  \* local flag of ApiHandler::sync
    ui_pc,          \* where the render loop (and then main's shutdown) is
    api_q,          \* the intent queue (api_tx / api_rx), bounded
    ui_q,           \* the signal queue (ui_tx / ui_rx), bounded
    app_lock,       \* holder of the snapshot lock: "free", "ui" or "api"
    handler_lock,   \* holder of the ApiHandler lock: "free", "api" or "main"
    ui_pending,     \* the intent the render loop is sending
    d_pc,           \* where the dispatcher task is (one value per suspension point)
    current_event,  \* ApiHandler.current_event
    replay,         \* the dispatcher is inside handle_error's replay of handle
    input_event,    \* local of handle: the signal to send on success
    event,          \* local of the dispatcher loop: the intent just received
    credentials,    \* Api.username and Api.password are both Some
    job,            \* ghost: the intent last dequeued and what was done for it
    cyc,            \* ghost: what the current dispatcher cycle has done so far
    step,           \* ghost: the latest dispatcher step and the payload it consumed
    seen_rid,       \* ghost: the cursor of the last delta_sync response received
    ledger          \* ghost: last reload's hash set minus the removals applied since

engineVars == <<rid, pc, should_reload, cyc, step, seen_rid, ledger>>
concVars == <<api_q, ui_q, app_lock, handler_lock, ui_pending, d_pc, current_event,
              replay, input_event, event, credentials, job>>
vars == <<app, ui_pc, engineVars, concVars>>

NoCycle == [op |-> "none"]
NoStep == [name |-> "none"]

\* App::new
AppNew ==
    [torrents |-> <<>>,
     transfer_info |-> [use_alt_speed_limits |-> FALSE],
     categories |-> <<>>,
     selected_category |-> SelectedAll,
     is_connected |-> TRUE,
     is_running |-> TRUE,
     forced_shutdown_reason |-> None,
     error_reconnection_attempt_n |-> 0,
     current_route |-> "Torrents"]

NoJob == [event |-> None, ran |-> <<>>, logins |-> 0, login_ok |-> FALSE,
          err |-> None, ok_call |-> FALSE, attempt_n |-> 0]

\* main up to the construction of the channels, App::new and ApiHandler::new
InitState(creds) ==
    /\ app = AppNew
    /\ rid = 0
    /\ pc = "main"
    /\ should_reload = FALSE
    /\ ui_pc = "main"
    /\ api_q = <<>>
    /\ ui_q = <<>>
    /\ app_lock = "free"
    /\ handler_lock = "free"
    /\ ui_pending = None
    /\ d_pc = "main"
    /\ current_event = <<"Sync">>
    /\ replay = FALSE
    /\ input_event = None
    /\ event = None
    /\ credentials = creds
    /\ job = NoJob
    /\ cyc = NoCycle
    /\ step = NoStep
    /\ seen_rid = 0
    /\ ledger = {}

Init == InitState(TRUE)

\* ------------------------------------------------------------ Sync Engine
\* Variant: the reload replaces jobs and stats but keeps the old categories.
reload_keeps_categories(a, res) ==
    [a EXCEPT !.torrents = res.torrents_info,
              !.transfer_info = [use_alt_speed_limits |-> (res.mode = "Alternative")]]

\* ApiHandler::reload, the critical section after a successful try_join!.
reload(a, res) ==
    [a EXCEPT !.torrents = res.torrents_info,
              !.transfer_info = [use_alt_speed_limits |-> (res.mode = "Alternative")],
              !.categories = sort_by_key_lowercase(SetToSeq(res.categories))]

\* Variant: the jobs that stay come out in reverse order.
retain_torrents_reversed(ts, removed) ==
    LET kept == SelectSeq(ts, LAMBDA t : t.hash \notin removed)
    IN  [i \in 1..Len(kept) |-> kept[Len(kept) + 1 - i]]

\* Variant: the retain predicate is inverted.
retain_torrents_inverted(ts, removed) == SelectSeq(ts, LAMBDA t : t.hash \in removed)

\* retain(|torrent| !torrents_removed.contains(&torrent.hash))
retain_torrents(ts, removed) == SelectSeq(ts, LAMBDA t : t.hash \notin removed)

\* macro replace_if_some!(name): if let Some(v) = info.name { target.name = v; }
replace_if_some(old, info, name) ==
    IF name \in DOMAIN info /\ IsSome(info[name]) THEN Unwrap(info[name]) ELSE old

\* The fields of a job, and of the stats, that have a replace_if_some! line
\* (of those the model carries).
ReplacedTorrentFields == {"progress", "state"}
ReplacedTransferFields == {"dl_info_speed", "use_alt_speed_limits"}

\* Variant: the replace_if_some!(state) line is missing.
merge_torrent_progress_only(t, info) ==
    [t EXCEPT !.progress = IF IsSome(info.progress) THEN Unwrap(info.progress) ELSE @]

\* Variant: the job is built anew from the delta, and a field the delta has no
\* place for falls back to zero.
merge_torrent_built_anew(t, info) ==
    [name \in DOMAIN t |->
        IF name \in ReplacedTorrentFields THEN replace_if_some(t[name], info, name)
        ELSE IF name = "num_seeds" THEN 0
        ELSE t[name]]

\* the replace_if_some! lines for one job
merge_torrent(t, info) ==
    [name \in DOMAIN t |->
        IF name \in ReplacedTorrentFields
        THEN replace_if_some(t[name], info, name)
        ELSE t[name]]

\* The loop over data.torrents: merge into the job with that hash; stop at
\* the first hash that is not in the snapshot and ask for a reload.
RECURSIVE merge_torrents(_, _, _)
merge_torrents(ts, torrents, order) ==
    IF order = <<>>
    THEN [torrents |-> ts, should_reload |-> FALSE]
    ELSE LET hash == Head(order)
             found == {i \in 1..Len(ts) : ts[i].hash = hash}
         IN  IF found # {}
             THEN LET i == CHOOSE k \in found : \A m \in found : k <= m
                  IN  merge_torrents([ts EXCEPT ![i] = merge_torrent(@, torrents[hash])],
                                     torrents, Tail(order))
             ELSE [torrents |-> ts, should_reload |-> TRUE]

\* extend_from_slice + sort_unstable
add_categories(cs, new) == sort_unstable(cs \o SetToSeq(new))

\* &app.categories[i - 2] is out of range
selected_out_of_range(a) ==
    /\ a.selected_category[1] = "Category"
    /\ a.selected_category[2] - 2 >= Len(a.categories)

\* the selected-category reset followed by retain + sort_unstable
remove_categories(a, removed) ==
    LET sel == a.selected_category
        reset == /\ sel[1] = "Category"
                 /\ a.categories[sel[2] - 1] \in removed
    IN  [a EXCEPT !.selected_category = IF reset THEN SelectedAll ELSE @,
                  !.categories = sort_unstable(SelectSeq(@, LAMBDA c : c \notin removed))]

\* the replace_if_some! lines for the transfer stats
merge_server_state(ti, ss) ==
    [name \in DOMAIN ti |->
        IF name \in ReplacedTransferFields
        THEN replace_if_some(ti[name], ss, name)
        ELSE ti[name]]

\* --------------------------------------------------- dispatcher, by step
Alive == ui_pc # "panicked"

\* Variant: a successful reload resets the cursor.
ReloadEffect_resets_cursor(res) ==
    /\ app' = IF res.ok THEN reload(app, res) ELSE app
    /\ ledger' = IF res.ok THEN HashSet(res.torrents_info) ELSE ledger
    /\ rid' = IF res.ok THEN 0 ELSE rid
    /\ seen_rid' = seen_rid

\* reload() as its callers run it: the snapshot is replaced on success and
\* left alone on failure; self.rid is not touched.
ReloadEffect(res) ==
    /\ app' = IF res.ok THEN reload(app, res) ELSE app
    /\ ledger' = IF res.ok THEN HashSet(res.torrents_info) ELSE ledger
    /\ rid' = rid
    /\ seen_rid' = seen_rid

\* main: the startup reload; a failure exits the process.
MainReload ==
    /\ Alive /\ pc = "main"
    /\ \E res \in ReloadResults :
        /\ ReloadEffect(res)
        /\ pc' = IF res.ok THEN "idle" ELSE "exited"
        /\ step' = [name |-> "main_reload", arg |-> res]
    /\ UNCHANGED <<should_reload, ui_pc, cyc, concVars>>

\* handle(ApiEvent::Reload)
HandleReload ==
    /\ Alive /\ pc = "idle"
    /\ \E res \in ReloadResults :
        /\ ReloadEffect(res)
        /\ step' = [name |-> "reload", arg |-> res]
        /\ cyc' = [op |-> "reload", reload |-> IF res.ok THEN "ok" ELSE "err"]
    /\ pc' = "done"
    /\ UNCHANGED <<should_reload, ui_pc, concVars>>

NewSyncCycle ==
    [op |-> "sync", resp_rid |-> None, full_update |-> FALSE,
     expected_hashes |-> HashSet(app.torrents), removed_some |-> FALSE,
     removed_hashes |-> {}, unknown |-> FALSE, unknown_hashes |-> {},
     after_unknown |-> {}, reload |-> "no", empty |-> TRUE]

\* An optional list or key set of the response that is absent or empty.
NothingIn(field) == field = None \/ Unwrap(field) = {}

\* An optional map or record of the response that is absent, has no key, or
\* has only absent fields.
NothingInMap(field) ==
    \/ field = None
    \/ \A key \in DOMAIN Unwrap(field) : Unwrap(field)[key] = None

\* The ghost keeps whether every field handled so far carried nothing.
Handled(c, nothing) == [c EXCEPT !.empty = @ /\ nothing]

\* What a step that ran after the unknown hash was seen adds to the ghost.
Applied(names) == [cyc EXCEPT !.after_unknown = IF cyc.unknown THEN @ \cup names ELSE @]

\* handle(ApiEvent::Sync): sync_maindata(rid) fails
SyncMaindataErr ==
    /\ Alive /\ pc = "idle"
    /\ \E e \in {"External", "NotAuthenticated"} :
        step' = [name |-> "sync_maindata", query |-> rid, arg |-> e]
    /\ cyc' = NewSyncCycle
    /\ pc' = "done"
    /\ UNCHANGED <<app, rid, should_reload, ui_pc, seen_rid, ledger, concVars>>

\* Variant: the cursor is only ever moved forward.
next_rid_forward_only(cur, data_rid) == IF data_rid > cur THEN data_rid ELSE cur

\* self.rid = data.rid
next_rid(cur, data_rid) == data_rid

\* if let Some(full_update) = data.full_update { if full_update { .. } }
after_maindata(full_update) ==
    IF full_update = Some(TRUE) THEN "full_update" ELSE "torrents_removed"

\* Variant: the return after the full-update reload is missing.
after_full_update_falls_through(ok) == IF ok THEN "torrents_removed" ELSE "done"

\* self.reload().await?; return Ok(());
after_full_update(ok) == "done"

\* Variant: the should_reload check is missing.
after_categories_removed_ignores_flag(flag) == "server_state"

\* if should_reload { self.reload().await?; return Ok(()); }
after_categories_removed(flag) == IF flag THEN "reload" ELSE "server_state"

\* handle(ApiEvent::Sync): sync_maindata(rid) answers; self.rid = data.rid
SyncMaindata ==
    /\ Alive /\ pc = "idle"
    /\ \E r \in 0..MaxRid, full_update \in OptionOf(BOOLEAN) :
        /\ rid' = next_rid(rid, r)
        /\ seen_rid' = r
        /\ step' = [name |-> "sync_maindata", query |-> rid]
        /\ cyc' = [NewSyncCycle EXCEPT !.resp_rid = Some(r),
                                       !.full_update = (full_update = Some(TRUE)),
                                       !.empty = (full_update # Some(TRUE))]
        /\ pc' = after_maindata(full_update)
    /\ should_reload' = FALSE
    /\ UNCHANGED <<app, ui_pc, ledger, concVars>>

\* full_update == Some(true): reload()?; return Ok(())
SyncFullUpdate ==
    /\ Alive /\ pc = "full_update"
    /\ \E res \in ReloadResults :
        /\ ReloadEffect(res)
        /\ step' = [name |-> "full_update_reload", arg |-> res]
        /\ cyc' = [cyc EXCEPT !.reload = IF res.ok THEN "ok" ELSE "err"]
        /\ pc' = after_full_update(res.ok)
    /\ UNCHANGED <<should_reload, ui_pc, concVars>>

\* if let Some(torrents_removed) = data.torrents_removed
SyncTorrentsRemoved ==
    /\ Alive /\ pc = "torrents_removed"
    /\ \E torrents_removed \in OptionOf(SUBSET Hashes) :
        IF IsSome(torrents_removed)
        THEN /\ app' = [app EXCEPT
                    !.torrents = retain_torrents(@, Unwrap(torrents_removed))]
             /\ ledger' = ledger \ Unwrap(torrents_removed)
             /\ cyc' = [Handled(cyc, NothingIn(torrents_removed)) EXCEPT
                    !.expected_hashes = @ \ Unwrap(torrents_removed),
                    !.removed_hashes = Unwrap(torrents_removed),
                    !.removed_some = (Unwrap(torrents_removed) \cap HashSet(app.torrents) # {})]
        ELSE UNCHANGED <<app, ledger, cyc>>
    /\ step' = [name |-> "torrents_removed"]
    /\ pc' = "torrents"
    /\ UNCHANGED <<rid, should_reload, ui_pc, seen_rid, concVars>>

\* if let Some(torrents) = data.torrents
SyncTorrents ==
    /\ Alive /\ pc = "torrents"
    /\ \E torrents \in OptionOf(UNION {[D -> TorrentInfoSync] : D \in SUBSET Hashes}) :
        /\ IF IsSome(torrents)
           THEN \E order \in Orderings(DOMAIN Unwrap(torrents)) :
                LET r == merge_torrents(app.torrents, Unwrap(torrents), order)
                IN  /\ app' = [app EXCEPT !.torrents = r.torrents]
                    /\ should_reload' = r.should_reload
                    /\ cyc' = [Handled(cyc, DOMAIN Unwrap(torrents) = {}) EXCEPT
                            !.unknown =
                                ~(DOMAIN Unwrap(torrents) \subseteq HashSet(app.torrents)),
                            !.unknown_hashes = DOMAIN Unwrap(torrents) \ HashSet(app.torrents)]
           ELSE UNCHANGED <<app, should_reload, cyc>>
        /\ step' = [name |-> "torrents",
                    arg |-> IF IsSome(torrents) THEN Some(DOMAIN Unwrap(torrents)) ELSE None]
    /\ pc' = "categories"
    /\ UNCHANGED <<rid, ui_pc, seen_rid, ledger, concVars>>

\* if let Some(categories) = data.categories
SyncCategories ==
    /\ Alive /\ pc = "categories"
    /\ \E categories \in OptionOf(SUBSET Names) :
        /\ IF IsSome(categories)
           THEN /\ Len(app.categories) + Cardinality(Unwrap(categories)) <= MaxCategories
                /\ app' = [app EXCEPT !.categories = add_categories(@, Unwrap(categories))]
                /\ cyc' = Handled(Applied({"categories"}), NothingIn(categories))
           ELSE UNCHANGED <<app, cyc>>
        /\ step' = [name |-> "categories", arg |-> categories]
    /\ pc' = "categories_removed"
    /\ UNCHANGED <<rid, should_reload, ui_pc, seen_rid, ledger, concVars>>

\* if let Some(categories_removed) = data.categories_removed
SyncCategoriesRemoved ==
    /\ Alive /\ pc = "categories_removed"
    /\ \E categories_removed \in OptionOf(SUBSET Names) :
        /\ step' = [name |-> "categories_removed", arg |-> categories_removed]
        /\ IF IsSome(categories_removed)
           THEN IF selected_out_of_range(app)
                THEN /\ pc' = "panicked"
                     /\ UNCHANGED <<app, cyc>>
                ELSE /\ app' = remove_categories(app, Unwrap(categories_removed))
                     /\ cyc' = Handled(Applied({"categories_removed"} \cup
                                               IF app'.selected_category # app.selected_category
                                               THEN {"selection_reset"} ELSE {}),
                                       NothingIn(categories_removed))
                     /\ pc' = after_categories_removed(should_reload)
           ELSE /\ pc' = after_categories_removed(should_reload)
                /\ UNCHANGED <<app, cyc>>
    /\ UNCHANGED <<rid, should_reload, ui_pc, seen_rid, ledger, concVars>>

\* if should_reload { self.reload().await?; return Ok(()); }
SyncShouldReload ==
    /\ Alive /\ pc = "reload"
    /\ \E res \in ReloadResults :
        /\ ReloadEffect(res)
        /\ step' = [name |-> "forced_reload", arg |-> res]
        /\ cyc' = [cyc EXCEPT !.reload = IF res.ok THEN "ok" ELSE "err"]
    /\ pc' = "done"
    /\ UNCHANGED <<should_reload, ui_pc, concVars>>

\* if let Some(server_state) = data.server_state
SyncServerState ==
    /\ Alive /\ pc = "server_state"
    /\ \E server_state \in OptionOf(TransferInfoSync) :
        /\ IF IsSome(server_state)
           THEN app' = [app EXCEPT
                    !.transfer_info = merge_server_state(@, Unwrap(server_state))]
           ELSE UNCHANGED app
        /\ cyc' = Handled(cyc, NothingInMap(server_state))
    /\ step' = [name |-> "server_state"]
    /\ pc' = "done"
    /\ UNCHANGED <<rid, should_reload, ui_pc, seen_rid, ledger, concVars>>

\* handle / handle_error return; the dispatcher loop waits for the next intent.
Return ==
    /\ Alive /\ pc = "done"
    /\ pc' = "idle"
    /\ cyc' = NoCycle
    /\ step' = NoStep
    /\ UNCHANGED <<app, rid, should_reload, ui_pc, seen_rid, ledger, concVars>>

\* ------------------------------------------------- render loop (engine view)
\* App::choose_selected_category on a row of the freshly drawn category list.
choose_selected_category(a, i) ==
    [a EXCEPT !.selected_category =
        CASE i = 0 -> SelectedAll
          [] i = 1 -> SelectedUncategorized
          [] OTHER -> SelectedCategory(i)]

ChooseCategory ==
    /\ Alive /\ pc \notin {"main", "exited"}
    /\ \E i \in 0..(Len(app.categories) + 1) :
        app' = choose_selected_category(app, i)
    /\ UNCHANGED <<ui_pc, engineVars, concVars>>

\* draw_torrents -> App::get_visible_torrents: &self.categories[i - 2] panics
\* when the selected index is out of range, and the panic ends the process.
DrawTorrents ==
    /\ Alive /\ pc \notin {"main", "exited"}
    /\ selected_out_of_range(app)
    /\ ui_pc' = "panicked"
    /\ UNCHANGED <<app, engineVars, concVars>>

Next ==
    \/ MainReload
    \/ HandleReload
    \/ SyncMaindataErr
    \/ SyncMaindata
    \/ SyncFullUpdate
    \/ SyncTorrentsRemoved
    \/ SyncTorrents
    \/ SyncCategories
    \/ SyncCategoriesRemoved
    \/ SyncShouldReload
    \/ SyncServerState
    \/ Return
    \/ ChooseCategory
    \/ DrawTorrents

Spec == Init /\ [][Next]_vars

TypeOK ==
    /\ rid \in 0..MaxRid
    /\ DistinctHashes(app.torrents)

\* ===================================================================
\* Render loop, dispatcher task, snapshot lock and the two queues.
\* ===================================================================
IntentHashes == {"h1"}

\* ApiEvent
ApiEvent ==
    {<<"Reload">>, <<"Sync">>}
    \cup {<<k, h>> : k \in {"Files", "Delete", "DeleteFiles", "Pause", "Resume"},
                     h \in IntentHashes}

\* The intents the key handlers send here, one for each way handle ends: Reload
\* (no signal), Files (Redraw) and Delete (Tick).  DeleteFiles, Pause and Resume
\* are left to handle's arms: the dispatcher treats them exactly as Delete.
KeyIntents == {<<"Reload">>, <<"Files", "h1">>, <<"Delete", "h1">>}

\* What a Remote Client call can come back with.
Outcomes == {"ok", "External", "NotAuthenticated"}

InitConc == \E creds \in BOOLEAN : InitState(creds)

ProcessRunning == ui_pc \in {"draw", "select", "send", "check", "exit", "logout"}

\* Program points at which the dispatcher awaits a Remote Client call.
NetPcs == {"net", "net_reload", "login"}
\* Program points at which the dispatcher awaits the snapshot lock.
LockPcs == {"apply", "apply_reload", "connected", "external", "check_running",
            "fatal_relogin", "fatal_replay"}

\* main: startup login (when credentials are given) and reload, then the
\* dispatcher task is spawned and the render loop started; any failure exits.
MainStart ==
    /\ ui_pc = "main" /\ d_pc = "main"
    /\ \E ok \in BOOLEAN :
        IF ok THEN ui_pc' = "select" /\ d_pc' = "recv"
              ELSE ui_pc' = "exited" /\ d_pc' = "exited"
    /\ UNCHANGED <<app, engineVars, api_q, ui_q, app_lock, handler_lock, ui_pending,
                   current_event, replay, input_event, event, credentials, job>>

\* ------------------------------------------------------------ render loop
\* The handler takes the snapshot lock and then sends `intent` with the lock held.
UiBeginSend(intent) ==
    /\ ProcessRunning /\ ui_pc = "select"
    /\ app_lock = "free"
    /\ app_lock' = "ui"
    /\ ui_pending' = Some(intent)
    /\ ui_pc' = "send"

\* _ = sleep(timeout): lock, app.sync()
UiTick ==
    /\ UiBeginSend(<<"Sync">>)
    /\ UNCHANGED <<app, engineVars, api_q, ui_q, handler_lock, d_pc, current_event,
                   replay, input_event, event, credentials, job>>

\* Event::Key: lock, then a key handler that sends an intent; while
\* disconnected only handlers::error runs, which can only send Reload.
UiKey ==
    /\ \E intent \in KeyIntents :
        /\ app.is_connected \/ intent = <<"Reload">>
        /\ UiBeginSend(intent)
    /\ UNCHANGED <<app, engineVars, api_q, ui_q, handler_lock, d_pc, current_event,
                   replay, input_event, event, credentials, job>>

\* Key q / Esc (job list or disconnected), or the input stream ends or fails:
\* lock, app.is_running = false
UiQuit ==
    /\ ProcessRunning /\ ui_pc = "select"
    /\ app_lock = "free"
    /\ app' = [app EXCEPT !.is_running = FALSE]
    /\ ui_pc' = "check"
    /\ UNCHANGED <<engineVars, concVars>>

\* maybe_event = ui_rx.recv(): Tick -> lock, app.sync(); Redraw -> redraw
UiRecvSignal ==
    /\ ProcessRunning /\ ui_pc = "select"
    /\ ui_q # <<>>
    /\ ui_q' = Tail(ui_q)
    /\ IF Head(ui_q) = "Tick"
       THEN /\ app_lock = "free"
            /\ app_lock' = "ui"
            /\ ui_pending' = Some(<<"Sync">>)
            /\ ui_pc' = "send"
       ELSE /\ ui_pc' = "check"
            /\ UNCHANGED <<app_lock, ui_pending>>
    /\ UNCHANGED <<app, engineVars, api_q, handler_lock, d_pc, current_event,
                   replay, input_event, event, credentials, job>>

\* api_tx.send(..).await.unwrap() with the snapshot lock held: waits for room
\* in the queue; fails (and the unwrap panics) once the receiver is gone.
UiSend ==
    /\ ProcessRunning /\ ui_pc = "send"
    /\ IF d_pc = "panicked"
       THEN /\ ui_pc' = "crashed"
            /\ UNCHANGED api_q
       ELSE /\ Len(api_q) < ApiQueueCap
            /\ api_q' = Append(api_q, Unwrap(ui_pending))
            /\ ui_pc' = "check"
    /\ ui_pending' = None
    /\ app_lock' = "free"
    /\ UNCHANGED <<app, engineVars, ui_q, handler_lock, d_pc, current_event,
                   replay, input_event, event, credentials, job>>

\* Variant: the loop goes round again whatever the flag says.
UiCheck_goes_round_again ==
    /\ ProcessRunning /\ ui_pc = "check"
    /\ app_lock = "free"
    /\ ui_pc' = "select"
    /\ UNCHANGED <<app, engineVars, concVars>>

\* let app = app.lock().await; if !app.is_running { break; }
UiCheck ==
    /\ ProcessRunning /\ ui_pc = "check"
    /\ app_lock = "free"
    /\ ui_pc' = IF app.is_running THEN "select" ELSE "exit"
    /\ UNCHANGED <<app, engineVars, concVars>>

\* main after start_ui: api_handler_arc1.lock().await
MainLockHandler ==
    /\ ui_pc = "exit"
    /\ handler_lock = "free"
    /\ handler_lock' = "main"
    /\ ui_pc' = "logout"
    /\ UNCHANGED <<app, engineVars, api_q, ui_q, app_lock, ui_pending, d_pc,
                   current_event, replay, input_event, event, credentials, job>>

\* let _ = api_handler.api.logout().await; the process ends
MainLogout ==
    /\ ui_pc = "logout"
    /\ ui_pc' = "terminated"
    /\ UNCHANGED <<app, engineVars, concVars>>

\* ------------------------------------------------------------- dispatcher
\* handle() starts by issuing its first Remote Client call.
first_call(intent) == IF intent = <<"Reload">> THEN "net_reload" ELSE "net"

\* Variant: the replay issues a Sync whatever the failed intent was.
replay_event_sync(cur) == <<"Sync">>

\* handle_error replays self.current_event.clone()
replay_event(cur) == cur

\* Variant: the loop takes the next intent while a call is still in flight.
DispatcherRecv_while_busy ==
    /\ ProcessRunning /\ d_pc \in {"recv", "net", "net_reload", "login"}
    /\ api_q # <<>>
    /\ event' = Some(Head(api_q))
    /\ api_q' = Tail(api_q)
    /\ d_pc' = "lock_handler"
    /\ handler_lock' = "free"
    /\ job' = [job EXCEPT !.event = Some(Head(api_q))]
    /\ UNCHANGED <<app, ui_pc, engineVars, ui_q, app_lock, ui_pending,
                   current_event, replay, input_event, credentials>>

\* while let Some(event) = api_rx.recv().await
DispatcherRecv ==
    /\ ProcessRunning /\ d_pc = "recv"
    /\ api_q # <<>>
    /\ event' = Some(Head(api_q))
    /\ api_q' = Tail(api_q)
    /\ d_pc' = "lock_handler"
    /\ handler_lock' = handler_lock
    /\ job' = [NoJob EXCEPT !.event = Some(Head(api_q)),
                            !.attempt_n = app.error_reconnection_attempt_n]
    /\ UNCHANGED <<app, ui_pc, engineVars, ui_q, app_lock, ui_pending,
                   current_event, replay, input_event, credentials>>

\* api_handler_arc2.lock().await; handle(event): self.current_event = event
DispatcherHandle ==
    /\ ProcessRunning /\ d_pc = "lock_handler"
    /\ handler_lock = "free"
    /\ handler_lock' = "api"
    /\ current_event' = Unwrap(event)
    /\ event' = None
    /\ input_event' = None
    /\ d_pc' = first_call(Unwrap(event))
    /\ job' = [job EXCEPT !.ran = Append(@, Unwrap(event))]
    /\ UNCHANGED <<app, ui_pc, engineVars, api_q, ui_q, app_lock, ui_pending,
                   replay, credentials>>

\* The loop iteration ends: the ApiHandler guard is dropped.
BackToRecv ==
    /\ d_pc' = "recv"
    /\ handler_lock' = "free"
    /\ replay' = FALSE

\* handle returned Ok(()) (to the loop, or to handle_error's replay).
Finish == BackToRecv

\* Variant: an error of the replay is handled like an error of the first run.
Fail_ignores_replay(e) ==
    /\ d_pc' = IF e = "External" THEN "external" ELSE "check_running"
    /\ job' = [job EXCEPT !.err = Some(e)]
    /\ UNCHANGED <<handler_lock, replay>>

\* handle returned Err(e).
Fail(e) ==
    /\ d_pc' = IF replay THEN "fatal_replay"
               ELSE IF e = "External" THEN "external" ELSE "check_running"
    /\ job' = [job EXCEPT !.err = Some(e)]
    /\ UNCHANGED <<handler_lock, replay>>

\* A Remote Client call of the intent being handled returned success.
CallOk == job' = [job EXCEPT !.ok_call = TRUE]

ErrorOutcomes ==
    {e \in {"External", "NotAuthenticated"} :
        e = "External" => app.error_reconnection_attempt_n < MaxAttempts}

\* The first call of handle for every intent but Reload returns.
DispatcherNet ==
    /\ ProcessRunning /\ d_pc = "net"
    /\ \/ \E e \in ErrorOutcomes : Fail(e) /\ UNCHANGED input_event
       \/ /\ current_event[1] = "Sync"
          /\ \E full_update \in BOOLEAN :
                d_pc' = IF full_update THEN "net_reload" ELSE "apply"
          /\ CallOk
          /\ UNCHANGED <<handler_lock, replay, input_event>>
       \/ /\ current_event[1] = "Files"
          /\ d_pc' = "apply"
          /\ CallOk
          /\ UNCHANGED <<handler_lock, replay, input_event>>
       \/ /\ current_event[1] \in {"Pause", "Resume", "Delete", "DeleteFiles"}
          /\ input_event' = Some("Tick")
          /\ d_pc' = "connected"
          /\ CallOk
          /\ UNCHANGED <<handler_lock, replay>>
    /\ UNCHANGED <<app, ui_pc, engineVars, api_q, ui_q, app_lock, ui_pending,
                   current_event, event, credentials>>

\* reload(): try_join! of the four fetches returns.
DispatcherNetReload ==
    /\ ProcessRunning /\ d_pc = "net_reload"
    /\ \/ \E e \in ErrorOutcomes : Fail(e)
       \/ d_pc' = "apply_reload" /\ CallOk /\ UNCHANGED <<handler_lock, replay>>
    /\ UNCHANGED <<app, ui_pc, engineVars, api_q, ui_q, app_lock, ui_pending,
                   current_event, input_event, event, credentials>>

\* How many files torrents_files lists.
FileCounts == {0, 1, 2}

\* Route
Routes == {"Torrents", "Search", "Dialog", "Sort", "Help", "Categories", "Info", "Files"}

\* handle, the Files arm under the snapshot lock: with a current torrent and
\* files.len() == 1 the file is opened in place; with a current torrent and
\* any other length the view becomes Files and Redraw is returned; without a
\* current torrent nothing happens.
files_arm(a, current_torrent, files_len) ==
    IF IsSome(current_torrent) /\ files_len # 1
    THEN [app |-> [a EXCEPT !.current_route = "Files"], input_event |-> Some("Redraw")]
    ELSE [app |-> a, input_event |-> None]

\* The critical sections of sync (removals .. categories), or of the Files
\* arm; the key handler that sent Files has set app.current_torrent.
DispatcherApply ==
    /\ ProcessRunning /\ d_pc = "apply"
    /\ app_lock = "free"
    /\ IF current_event[1] = "Sync"
       THEN /\ \E forced \in BOOLEAN :
                d_pc' = IF forced THEN "net_reload" ELSE "connected"
            /\ UNCHANGED <<app, input_event>>
       ELSE /\ \E files_len \in FileCounts :
                LET r == files_arm(app, Some(current_event[2]), files_len)
                IN  app' = r.app /\ input_event' = r.input_event
            /\ d_pc' = "connected"
    /\ UNCHANGED <<ui_pc, engineVars, api_q, ui_q, app_lock, handler_lock, ui_pending,
                   current_event, replay, event, credentials, job>>

\* The critical section of reload.
DispatcherApplyReload ==
    /\ ProcessRunning /\ d_pc = "apply_reload"
    /\ app_lock = "free"
    /\ d_pc' = "connected"
    /\ UNCHANGED <<app, ui_pc, engineVars, api_q, ui_q, app_lock, handler_lock,
                   ui_pending, current_event, replay, input_event, event,
                   credentials, job>>

\* Variant: the session is marked connected but the counter is kept.
DispatcherConnected_keeps_counter ==
    /\ ProcessRunning /\ d_pc = "connected"
    /\ app_lock = "free"
    /\ app' = [app EXCEPT !.is_connected = TRUE]
    /\ IF IsSome(input_event)
       THEN d_pc' = "signal" /\ UNCHANGED <<handler_lock, replay>>
       ELSE Finish
    /\ UNCHANGED <<ui_pc, engineVars, api_q, ui_q, app_lock, ui_pending,
                   current_event, input_event, event, credentials, job>>

\* handle: lock; app.is_connected = true; app.error_reconnection_attempt_n = 0
DispatcherConnected ==
    /\ ProcessRunning /\ d_pc = "connected"
    /\ app_lock = "free"
    /\ app' = [app EXCEPT !.is_connected = TRUE, !.error_reconnection_attempt_n = 0]
    /\ IF IsSome(input_event)
       THEN d_pc' = "signal" /\ UNCHANGED <<handler_lock, replay>>
       ELSE Finish
    /\ UNCHANGED <<ui_pc, engineVars, api_q, ui_q, app_lock, ui_pending,
                   current_event, input_event, event, credentials, job>>

\* self.ui_tx.send(input_event).await.unwrap(): waits for room in the queue;
\* fails (and the unwrap panics) once run has returned and dropped ui_rx.
DispatcherSignal ==
    /\ ProcessRunning /\ d_pc = "signal"
    /\ IF ui_pc \in {"exit", "logout"}
       THEN /\ d_pc' = "panicked"
            /\ handler_lock' = "free"
            /\ UNCHANGED <<ui_q, replay>>
       ELSE /\ Len(ui_q) < UiQueueCap
            /\ ui_q' = Append(ui_q, Unwrap(input_event))
            /\ Finish
    /\ input_event' = None
    /\ UNCHANGED <<app, ui_pc, engineVars, api_q, app_lock, ui_pending,
                   current_event, event, credentials, job>>

\* Variant: the failure sets the attempt counter to one instead of adding one.
DispatcherExternal_counts_to_one ==
    /\ ProcessRunning /\ d_pc = "external"
    /\ app_lock = "free"
    /\ app' = [app EXCEPT !.is_connected = FALSE,
                          !.error_reconnection_attempt_n = 1,
                          !.current_route = "Torrents"]
    /\ BackToRecv
    /\ UNCHANGED <<ui_pc, engineVars, api_q, ui_q, app_lock, ui_pending,
                   current_event, input_event, event, credentials, job>>

\* Variant: the failure is counted but the session stays marked connected.
DispatcherExternal_stays_connected ==
    /\ ProcessRunning /\ d_pc = "external"
    /\ app_lock = "free"
    /\ app' = [app EXCEPT !.error_reconnection_attempt_n = @ + 1,
                          !.current_route = "Torrents"]
    /\ BackToRecv
    /\ UNCHANGED <<ui_pc, engineVars, api_q, ui_q, app_lock, ui_pending,
                   current_event, input_event, event, credentials, job>>

\* handle_error, ApiError::External
DispatcherExternal ==
    /\ ProcessRunning /\ d_pc = "external"
    /\ app_lock = "free"
    /\ app' = [app EXCEPT !.is_connected = FALSE,
                          !.error_reconnection_attempt_n = @ + 1,
                          !.current_route = "Torrents"]
    /\ BackToRecv
    /\ UNCHANGED <<ui_pc, engineVars, api_q, ui_q, app_lock, ui_pending,
                   current_event, input_event, event, credentials, job>>

\* Variant: handle_error goes on to the login whatever the flag says.
DispatcherCheckRunning_whatever_the_flag ==
    /\ ProcessRunning /\ d_pc = "check_running"
    /\ app_lock = "free"
    /\ d_pc' = "login" /\ UNCHANGED <<handler_lock, replay>>
    /\ UNCHANGED <<app, ui_pc, engineVars, api_q, ui_q, app_lock, ui_pending,
                   current_event, input_event, event, credentials, job>>

\* handle_error, ApiError::NotAuthenticated: if !app.is_running { return; }
DispatcherCheckRunning ==
    /\ ProcessRunning /\ d_pc = "check_running"
    /\ app_lock = "free"
    /\ IF app.is_running
       THEN d_pc' = "login" /\ UNCHANGED <<handler_lock, replay>>
       ELSE BackToRecv
    /\ UNCHANGED <<app, ui_pc, engineVars, api_q, ui_q, app_lock, ui_pending,
                   current_event, input_event, event, credentials, job>>

\* What comes back for POST /auth/login: nothing (the request failed in
\* transport), or a status and a body.
LoginStatuses == {200, 403, 500}
LoginBodies == {"Ok.", "Fails.", ""}
LoginResponses ==
    {[sent |-> FALSE]} \cup [sent : {TRUE}, status : LoginStatuses, body : LoginBodies]

\* Api::post: send().await? turns a transport failure into External; a 403
\* is returned as NotAuthenticated; any other response is handed back.
post(resp) ==
    IF ~resp.sent THEN "External"
    ELSE IF resp.status = 403 THEN "NotAuthenticated"
    ELSE "ok"

\* Api::login after the payload is built: post(..)?, then the match on status
\* and body; a 200 with any other body reaches unreachable!().
login(resp) ==
    IF post(resp) # "ok" THEN post(resp)
    ELSE IF resp.status = 200
         THEN CASE resp.body = "Ok." -> "Ok."
                [] resp.body = "Fails." -> "WrongCredentials"
                [] OTHER -> "panic"
    ELSE IF resp.status = 403 THEN "TooManyAttempts"
    ELSE "External"

\* What Api::login returns to handle_error for the answers of a server that
\* keeps to the two bodies.
LoginOutcomes == {login(resp) : resp \in LoginResponses} \ {"panic"}

login_is_err_external_only(r) == r = "External"

\* self.api.login().await.is_err()
login_is_err(r) == r # "Ok."

\* self.api.login(): unwraps the credentials (panics without them), posts,
\* and on success handle(self.current_event.clone()) starts.
DispatcherLogin ==
    /\ ProcessRunning /\ d_pc = "login"
    /\ IF ~credentials
       THEN /\ d_pc' = "panicked"
            /\ handler_lock' = "free"
            /\ UNCHANGED <<current_event, replay, job>>
       ELSE \E r \in LoginOutcomes :
            IF ~login_is_err(r)
            THEN /\ replay' = TRUE
                 /\ current_event' = replay_event(current_event)
                 /\ d_pc' = first_call(current_event')
                 /\ job' = [job EXCEPT !.logins = @ + 1,
                                       !.login_ok = (r = "Ok."),
                                       !.ran = Append(@, current_event'),
                                       !.err = None, !.ok_call = TRUE]
                 /\ UNCHANGED handler_lock
            ELSE /\ d_pc' = "fatal_relogin"
                 /\ job' = [job EXCEPT !.logins = @ + 1]
                 /\ UNCHANGED <<handler_lock, current_event, replay>>
    /\ input_event' = None
    /\ UNCHANGED <<app, ui_pc, engineVars, api_q, ui_q, app_lock, ui_pending,
                   event, credentials>>

\* login failed: is_running = false, "Could not relogin"
DispatcherFatalRelogin ==
    /\ ProcessRunning /\ d_pc = "fatal_relogin"
    /\ app_lock = "free"
    /\ app' = [app EXCEPT !.is_running = FALSE,
                          !.forced_shutdown_reason = Some("Could not relogin")]
    /\ BackToRecv
    /\ UNCHANGED <<ui_pc, engineVars, api_q, ui_q, app_lock, ui_pending,
                   current_event, input_event, event, credentials, job>>

\* the replay failed: is_running = false, "Not authenticated"
DispatcherFatalReplay ==
    /\ ProcessRunning /\ d_pc = "fatal_replay"
    /\ app_lock = "free"
    /\ app' = [app EXCEPT !.is_running = FALSE,
                          !.forced_shutdown_reason = Some("Not authenticated")]
    /\ BackToRecv
    /\ UNCHANGED <<ui_pc, engineVars, api_q, ui_q, app_lock, ui_pending,
                   current_event, input_event, event, credentials, job>>

NextConc ==
    \/ MainStart
    \/ UiTick
    \/ UiKey
    \/ UiQuit
    \/ UiRecvSignal
    \/ UiSend
    \/ UiCheck
    \/ MainLockHandler
    \/ MainLogout
    \/ DispatcherRecv
    \/ DispatcherHandle
    \/ DispatcherNet
    \/ DispatcherNetReload
    \/ DispatcherApply
    \/ DispatcherApplyReload
    \/ DispatcherConnected
    \/ DispatcherSignal
    \/ DispatcherExternal
    \/ DispatcherCheckRunning
    \/ DispatcherLogin
    \/ DispatcherFatalRelogin
    \/ DispatcherFatalReplay

SpecConc == InitConc /\ [][NextConc]_vars

\* Any step of the dispatcher task.
DispatcherStep ==
    \/ DispatcherRecv
    \/ DispatcherHandle
    \/ DispatcherNet
    \/ DispatcherNetReload
    \/ DispatcherApply
    \/ DispatcherApplyReload
    \/ DispatcherConnected
    \/ DispatcherSignal
    \/ DispatcherExternal
    \/ DispatcherCheckRunning
    \/ DispatcherLogin
    \/ DispatcherFatalRelogin
    \/ DispatcherFatalReplay

\* Scheduling: the runtime keeps polling both tasks, requests return, the
\* snapshot lock is granted in arrival order, the timer of the tick fires and
\* select! does not starve a branch that is ready again and again.  Keys and
\* quitting are up to the user.
Fairness ==
    /\ SF_vars(DispatcherStep)
    /\ SF_vars(UiRecvSignal)
    /\ SF_vars(UiTick)
    /\ WF_vars(UiSend)
    /\ WF_vars(UiCheck)
    /\ WF_vars(MainStart)
    /\ WF_vars(MainLockHandler)
    /\ WF_vars(MainLogout)

SpecConcFair == SpecConc /\ Fairness

ConcTypeOK ==
    /\ Len(api_q) <= ApiQueueCap
    /\ Len(ui_q) <= UiQueueCap
    /\ app.error_reconnection_attempt_n <= MaxAttempts

\* ===================================================================
\* The merging steps of sync taken alone, on jobs and stats with more fields.
\* ===================================================================
\* The dispatcher is idle after a reload that returned any job list and stats.
InitDelta ==
    /\ \E ts \in TorrentListsWide, ti \in TransferInfoWide :
            app = [AppNew EXCEPT !.torrents = ts, !.transfer_info = ti]
    /\ rid = 0
    /\ pc = "idle"
    /\ should_reload = FALSE
    /\ ui_pc = "main"
    /\ api_q = <<>>
    /\ ui_q = <<>>
    /\ app_lock = "free"
    /\ handler_lock = "free"
    /\ ui_pending = None
    /\ d_pc = "main"
    /\ current_event = <<"Sync">>
    /\ replay = FALSE
    /\ input_event = None
    /\ event = None
    /\ credentials = TRUE
    /\ job = NoJob
    /\ cyc = NoCycle
    /\ step = NoStep
    /\ seen_rid = 0
    /\ ledger = HashSet(app.torrents)

\* if let Some(torrents_removed) = data.torrents_removed { retain }
DeltaTorrentsRemoved ==
    /\ step = NoStep
    /\ \E torrents_removed \in OptionOf(SUBSET Hashes) :
        /\ app' = IF IsSome(torrents_removed)
                  THEN [app EXCEPT !.torrents = retain_torrents(@, Unwrap(torrents_removed))]
                  ELSE app
        /\ step' = [name |-> "torrents_removed", arg |-> torrents_removed,
                    before |-> app.torrents]
    /\ ledger' = HashSet(app'.torrents)
    /\ UNCHANGED <<rid, pc, should_reload, ui_pc, cyc, seen_rid, concVars>>

\* The next response carries the same torrents_removed list once more.
DeltaTorrentsRemovedAgain ==
    /\ step.name = "torrents_removed" /\ IsSome(step.arg)
    /\ app' = [app EXCEPT !.torrents = retain_torrents(@, Unwrap(step.arg))]
    /\ step' = [name |-> "torrents_removed_again", arg |-> step.arg,
                before |-> step.before]
    /\ ledger' = HashSet(app'.torrents)
    /\ UNCHANGED <<rid, pc, should_reload, ui_pc, cyc, seen_rid, concVars>>

\* if let Some(torrents) = data.torrents { the merge loop }
DeltaTorrents ==
    /\ step = NoStep
    /\ \E torrents \in OptionOf(UNION {[D -> TorrentInfoSyncWide] : D \in SUBSET Hashes}) :
        IF IsSome(torrents)
        THEN \E order \in Orderings(DOMAIN Unwrap(torrents)) :
                LET r == merge_torrents(app.torrents, Unwrap(torrents), order)
                IN  /\ app' = [app EXCEPT !.torrents = r.torrents]
                    /\ should_reload' = r.should_reload
                    /\ step' = [name |-> "torrents", arg |-> torrents,
                                before |-> app.torrents]
        ELSE /\ step' = [name |-> "torrents", arg |-> torrents, before |-> app.torrents]
             /\ UNCHANGED <<app, should_reload>>
    /\ UNCHANGED <<rid, pc, ui_pc, cyc, seen_rid, ledger, concVars>>

\* if let Some(server_state) = data.server_state { the replace_if_some! lines }
DeltaServerState ==
    /\ step = NoStep
    /\ \E server_state \in OptionOf(TransferInfoSyncWide) :
        /\ app' = IF IsSome(server_state)
                  THEN [app EXCEPT
                            !.transfer_info = merge_server_state(@, Unwrap(server_state))]
                  ELSE app
        /\ step' = [name |-> "server_state", arg |-> server_state,
                    before |-> app.transfer_info]
    /\ UNCHANGED <<rid, pc, should_reload, ui_pc, cyc, seen_rid, ledger, concVars>>

NextDelta ==
    \/ DeltaTorrentsRemoved
    \/ DeltaTorrentsRemovedAgain
    \/ DeltaTorrents
    \/ DeltaServerState

SpecDelta == InitDelta /\ [][NextDelta]_vars

\* ===================================================================
\* Startup: main's login and first reload, for every answer to the login.
\* ===================================================================
InitStart ==
    \E creds \in BOOLEAN, resp \in LoginResponses :
        /\ app = AppNew
        /\ rid = 0
        /\ pc = "login"
        /\ should_reload = FALSE
        /\ ui_pc = "main"
        /\ api_q = <<>>
        /\ ui_q = <<>>
        /\ app_lock = "free"
        /\ handler_lock = "free"
        /\ ui_pending = None
        /\ d_pc = "main"
        /\ current_event = <<"Sync">>
        /\ replay = FALSE
        /\ input_event = None
        /\ event = None
        /\ credentials = creds
        /\ job = NoJob
        /\ cyc = NoCycle
        /\ step = [name |-> "login_response", response |-> resp]
        /\ seen_rid = 0
        /\ ledger = {}

\* main's match on the error of the startup login: a message and exit(1) for
\* External and for the two LoginError kinds, unreachable!() for the rest.
main_after_login(outcome) ==
    CASE outcome = "Ok." -> [pc |-> "main", message |-> None]
      [] outcome = "External" ->
            [pc |-> "exited", message |-> Some("Check connection!")]
      [] outcome = "WrongCredentials" ->
            [pc |-> "exited", message |-> Some("Check credentials!")]
      [] outcome = "TooManyAttempts" ->
            [pc |-> "exited", message |-> Some("Too many failed login attempts!")]
      [] OTHER -> [pc |-> "panicked", message |-> None]

\* main: if args.username.is_some() && args.password.is_some() { login }
StartLogin ==
    /\ pc = "login"
    /\ IF credentials
       THEN LET outcome == login(step.response)
                after == main_after_login(outcome)
            IN  /\ pc' = after.pc
                /\ step' = [name |-> "login", response |-> step.response,
                            outcome |-> outcome, message |-> after.message]
       ELSE /\ pc' = "main"
            /\ step' = [name |-> "login_skipped"]
    /\ UNCHANGED <<app, rid, should_reload, ui_pc, cyc, seen_rid, ledger, concVars>>

NextStart ==
    \/ StartLogin
    \/ MainReload

SpecStart == InitStart /\ [][NextStart]_vars

\* ===================================================================
\* The Files arm of handle taken alone, for every view, current torrent and
\* length of the listing.
\* ===================================================================
InitFiles ==
    \E route \in Routes, current_torrent \in OptionOf(Hashes), files_len \in FileCounts :
        /\ app = [AppNew EXCEPT !.current_route = route]
        /\ rid = 0
        /\ pc = "idle"
        /\ should_reload = FALSE
        /\ ui_pc = "select"
        /\ api_q = <<>>
        /\ ui_q = <<>>
        /\ app_lock = "free"
        /\ handler_lock = "api"
        /\ ui_pending = None
        /\ d_pc = "apply"
        /\ current_event = <<"Files", "h1">>
        /\ replay = FALSE
        /\ input_event = None
        /\ event = None
        /\ credentials = TRUE
        /\ job = NoJob
        /\ cyc = NoCycle
        /\ step = [name |-> "torrents_files", current_torrent |-> current_torrent,
                   files_len |-> files_len]
        /\ seen_rid = 0
        /\ ledger = {}

\* let mut app = self.app.lock().await; if let Some(ref torrent) = .. { .. }
FilesArm ==
    /\ d_pc = "apply" /\ step.name = "torrents_files"
    /\ app_lock = "free"
    /\ LET r == files_arm(app, step.current_torrent, step.files_len)
       IN  /\ app' = r.app
           /\ input_event' = r.input_event
    /\ d_pc' = "connected"
    /\ step' = [name |-> "files", current_torrent |-> step.current_torrent,
                files_len |-> step.files_len, route |-> app.current_route]
    /\ UNCHANGED <<rid, pc, should_reload, ui_pc, cyc, seen_rid, ledger,
                   api_q, ui_q, app_lock, handler_lock, ui_pending, current_event,
                   replay, event, credentials, job>>

\* handle: is_connected = true, counter 0, then ui_tx.send(input_event)
FilesSignal ==
    /\ d_pc = "connected" /\ step.name = "files"
    /\ app_lock = "free"
    /\ app' = [app EXCEPT !.is_connected = TRUE, !.error_reconnection_attempt_n = 0]
    /\ ui_q' = IF IsSome(input_event) THEN Append(ui_q, Unwrap(input_event)) ELSE ui_q
    /\ input_event' = None
    /\ d_pc' = "recv"
    /\ handler_lock' = "free"
    /\ UNCHANGED <<rid, pc, should_reload, ui_pc, cyc, step, seen_rid, ledger,
                   api_q, app_lock, ui_pending, current_event, replay, event,
                   credentials, job>>

NextFiles ==
    \/ FilesArm
    \/ FilesSignal

SpecFiles == InitFiles /\ [][NextFiles]_vars

\* ===================================================================
\* Properties of the Sync Engine (checked under Spec)
\* ===================================================================
ReloadSteps == {"main_reload", "reload", "full_update_reload", "forced_reload"}
ReloadedOk == step.name \in ReloadSteps /\ step.arg.ok
InSync == cyc.op = "sync"

\* What the snapshot holds right after a successful reload with result res.
IsReloadResult(a, res) ==
    /\ a.torrents = res.torrents_info
    /\ a.transfer_info = [use_alt_speed_limits |-> (res.mode = "Alternative")]
    /\ Range(a.categories) = res.categories
    /\ Len(a.categories) = Cardinality(res.categories)
    /\ \A i \in 1..(Len(a.categories) - 1) :
            LowercaseKey(a.categories[i]) <= LowercaseKey(a.categories[i + 1])

\* C1: in every sync cycle in which delta_sync returned a response, the stored
\* cursor equals the cursor of that response from then on and at the end of
\* the cycle, also when the response had full_update=true or forced a reload
\* (whether or not the reload succeeded); a delta_sync that fails leaves the
\* cursor at the value that was sent.
C1_CursorFollowsResponse ==
    InSync =>
        IF IsSome(cyc.resp_rid)
        THEN rid = Unwrap(cyc.resp_rid)
        ELSE rid = step.query

C1_Witness ==
    /\ pc = "done" /\ InSync
    /\ cyc.unknown /\ cyc.reload = "ok"
    /\ cyc.resp_rid = Some(0) /\ step.name = "forced_reload"
    /\ app.torrents # <<>>

\* C2: a sync cycle whose `updated` map names a hash that is not in the
\* snapshot never ends with a job built from the delta, and never ends
\* without having invoked full_reload.
C2_UnknownHashForcesReload ==
    (pc \in {"done", "panicked"} /\ InSync /\ cyc.unknown) =>
        /\ cyc.reload # "no"
        /\ (cyc.reload = "err" => HashSet(app.torrents) = cyc.expected_hashes)

\* C3: the job hashes are pairwise distinct; the hash set is the last full
\* reload's set minus the hashes of every removal list applied since; and
\* through a sync cycle that has not reloaded it is the set before the call
\* minus the response's removed_hashes (nothing added, nothing renamed).
C3_HashSetIsReloadMinusRemoved ==
    /\ DistinctHashes(app.torrents)
    /\ HashSet(app.torrents) = ledger
    /\ (InSync /\ cyc.reload # "ok") => HashSet(app.torrents) = cyc.expected_hashes

C3_Witness ==
    /\ pc = "done" /\ InSync /\ IsSome(cyc.resp_rid)
    /\ cyc.reload = "no" /\ cyc.removed_some
    /\ step.name = "server_state"
    /\ Len(app.torrents) = 1

\* C8 as stated: when a response forces a full reload, none of the steps
\* after the update step (categories_added, categories_removed, the
\* selected-category reset) is applied.
C8_ForcedReloadSkipsEveryLaterStep ==
    (pc = "done" /\ InSync /\ cyc.unknown) => cyc.after_unknown = {}

\* C8 amended, as a state predicate: in a cycle that has seen an unknown
\* hash the server_state step is never reached, and when the forced reload
\* succeeds the jobs, stats and categories are exactly its results.
ForcedReloadState ==
    (InSync /\ cyc.unknown) =>
        /\ should_reload
        /\ pc # "server_state"
        /\ (pc = "done" /\ cyc.reload = "ok") => IsReloadResult(app, step.arg)

\* C8 amended, the category steps of such a cycle: categories_added is still
\* merged, and categories_removed still removes the names and resets the
\* selection to All exactly when it names a removed category.
ForcedReloadCategorySteps ==
    /\ (InSync /\ cyc.unknown /\ pc = "categories" /\ pc' = "categories_removed"
            /\ IsSome(step'.arg)) =>
          Range(app'.categories) = Range(app.categories) \cup Unwrap(step'.arg)
    /\ (InSync /\ cyc.unknown /\ pc = "categories_removed" /\ pc' = "reload"
            /\ IsSome(step'.arg)) =>
          /\ Range(app'.categories) = Range(app.categories) \ Unwrap(step'.arg)
          /\ app'.selected_category =
                IF /\ app.selected_category[1] = "Category"
                   /\ app.categories[app.selected_category[2] - 1] \in Unwrap(step'.arg)
                THEN SelectedAll
                ELSE app.selected_category

\* C8 amended: when a response forces a full reload only server_state_delta
\* is skipped; categories_added, categories_removed and the selected-category
\* reset are applied before the reload, and a successful reload leaves
\* exactly its own jobs, stats and categories.
C8_ForcedReloadSkipsServerState ==
    ForcedReloadState /\ [][ForcedReloadState' /\ ForcedReloadCategorySteps]_vars

C8_Witness ==
    /\ pc = "done" /\ InSync /\ cyc.unknown /\ cyc.reload = "ok"
    /\ "selection_reset" \in cyc.after_unknown
    /\ "categories" \in cyc.after_unknown
    /\ app.selected_category = SelectedAll

\* C9 as stated: after every successful full_reload the cursor is 0.
C9_CursorZeroAfterReload == ReloadedOk => rid = 0

\* C9 amended: the cursor is 0 at process start and after the startup reload;
\* no full_reload changes it, so it stays the cursor of the last response
\* received (after a full_update or forced reload: that response's cursor),
\* and this is the cursor the next delta_sync carries.
C9_ReloadKeepsCursor ==
    /\ rid = 0
    /\ [][/\ rid' = seen_rid'
          /\ (step'.name \in ReloadSteps /\ step' # step) => rid' = rid
          /\ (pc = "main" /\ pc' = "idle") => rid' = 0
          /\ (pc = "idle" /\ step'.name = "sync_maindata") => step'.query = seen_rid]_vars

C9_Witness ==
    /\ ReloadedOk /\ step.name = "reload"
    /\ rid = 1

\* C10: when delta_sync returns full_update=true nothing of the response is
\* merged: the cycle goes from the cursor update straight to full_reload and
\* ends there; on success jobs, stats and categories are exactly the reload's
\* results, on failure the snapshot is as it was.
C10_FullUpdateReplaces ==
    [][/\ (pc = "idle" /\ pc' = "full_update") => app' = app
       /\ (pc = "full_update" /\ pc' # "full_update") =>
            /\ pc' = "done"
            /\ step'.name = "full_update_reload"
            /\ IF step'.arg.ok
               THEN /\ IsReloadResult(app', step'.arg)
                    /\ app'.selected_category = app.selected_category
               ELSE app' = app]_vars

C10_Witness ==
    /\ pc = "done" /\ InSync /\ cyc.full_update /\ cyc.reload = "ok"
    /\ step.name = "full_update_reload"
    /\ Len(app.torrents) = 2 /\ app.categories = <<"a", "B">>
    /\ app.transfer_info.use_alt_speed_limits

\* What the selection designates: All, Uncategorized, the name at
\* categories[i - 2], or nothing when that index is out of range.
SelectedName(a) ==
    IF a.selected_category[1] # "Category" THEN a.selected_category
    ELSE IF selected_out_of_range(a) THEN <<"OutOfRange">>
    ELSE <<"Category", a.categories[a.selected_category[2] - 1]>>

\* C12: in every incremental sync, from a selection that designates a
\* category, the categories_removed step makes the selection All when the
\* selected name is in the batch, and otherwise the selection designates the
\* same name after the step as before it; the categories_added step of the
\* same response leaves it designating the same name too.
C12_SelectionKeepsItsName ==
    [][(/\ InSync /\ step' # step
        /\ step'.name \in {"categories", "categories_removed"}
        /\ IsSome(step'.arg)
        /\ ~selected_out_of_range(app)) =>
            IF /\ step'.name = "categories_removed"
               /\ app.selected_category[1] = "Category"
               /\ SelectedName(app)[2] \in Unwrap(step'.arg)
            THEN app'.selected_category = SelectedAll
            ELSE SelectedName(app') = SelectedName(app)]_vars

\* C18: every full_reload, whoever runs it (startup, Reload intent,
\* full_update, forced reload), is one step on the snapshot: when all fetches
\* succeeded the job list, the stats with the alternative-speed flag and the
\* categories are all those of the results and every other field is as it
\* was; when a fetch failed the whole snapshot is as it was.
C18_ReloadAllOrNothing ==
    [][(step'.name \in ReloadSteps /\ step' # step) =>
            IF step'.arg.ok
            THEN /\ IsReloadResult(app', step'.arg)
                 /\ app' = [app EXCEPT !.torrents = app'.torrents,
                                       !.transfer_info = app'.transfer_info,
                                       !.categories = app'.categories]
            ELSE app' = app]_vars

C18_Witness ==
    /\ step.name = "reload" /\ step.arg.ok
    /\ step.arg.categories = {"B", "a"}
    /\ step.arg.mode = "Alternative"
    /\ Len(step.arg.torrents_info) = 2
    /\ app.categories = <<"a", "B">>
    /\ app.transfer_info.use_alt_speed_limits
    /\ app.torrents = step.arg.torrents_info
    /\ app.selected_category = SelectedUncategorized

\* The category list is one that a full_reload can have just stored: no
\* name twice, in ascending order of the lowercased names.
AsReloadLeavesIt(a) ==
    /\ Len(a.categories) = Cardinality(Range(a.categories))
    /\ \A i \in 1..(Len(a.categories) - 1) :
            LowercaseKey(a.categories[i]) <= LowercaseKey(a.categories[i + 1])

\* C20: in a sync whose response carries nothing (full_update not true, and
\* every list, map and record absent or empty so far), each step taken on a
\* snapshot as full_reload leaves it keeps the jobs, the stats, the
\* categories with their order, and the selected category.
C20_EmptyDeltaChangesNothing ==
    [][(/\ InSync /\ pc' # pc
        /\ cyc.empty /\ cyc'.op = "sync" /\ cyc'.empty
        /\ AsReloadLeavesIt(app)) =>
            /\ app'.torrents = app.torrents
            /\ app'.transfer_info = app.transfer_info
            /\ app'.categories = app.categories
            /\ app'.selected_category = app.selected_category]_vars

\* ===================================================================
\* Properties of the dispatcher and the render loop (checked under SpecConc)
\* ===================================================================
\* The render loop is suspended in api_tx.send: the intent queue is full.
UiBlockedSending ==
    ui_pc = "send" /\ Len(api_q) >= ApiQueueCap /\ d_pc # "panicked"
DispatcherWaitsForLock == d_pc \in LockPcs /\ app_lock # "free"
DispatcherBlockedSignalling == d_pc = "signal" /\ Len(ui_q) >= UiQueueCap

\* C4: in every state of a running process some context can take a step; in
\* particular the render loop is never blocked sending an intent while the
\* dispatcher is blocked on the snapshot lock or on the signal queue.
C4_NoDeadlock ==
    /\ ProcessRunning => ENABLED NextConc
    /\ ~(UiBlockedSending /\ (DispatcherWaitsForLock \/ DispatcherBlockedSignalling))

\* C5: intents leave the queue from the front, in the order they were
\* appended, and only while the dispatcher is waiting in recv, i.e. after the
\* previous intent (with its recovery login and replay) has finished; every
\* Remote Client call in flight belongs to the one intent last dequeued.
CallsBelongToDequeuedIntent ==
    d_pc \in NetPcs =>
        /\ IsSome(job.event) /\ current_event = Unwrap(job.event)
        /\ event = None
        /\ handler_lock = "api"

C5_FifoOneAtATime ==
    [][/\ Len(api_q') < Len(api_q) =>
            /\ d_pc = "recv"
            /\ event' = Some(Head(api_q))
            /\ api_q' = Tail(api_q)
       /\ Len(api_q') > Len(api_q) =>
            /\ ui_pc = "send"
            /\ api_q' = Append(api_q, Unwrap(ui_pending))
       /\ Len(api_q') = Len(api_q) => api_q' = api_q
       /\ current_event' # current_event =>
            /\ d_pc = "lock_handler"
            /\ current_event' = Unwrap(event)
       /\ CallsBelongToDequeuedIntent']_vars

C5_Witness ==
    /\ d_pc = "net" /\ replay
    /\ current_event = <<"Delete", "h1">>
    /\ api_q = << <<"Reload">>, <<"Sync">> >>

\* C6: for an intent that failed with AuthRequired while running with
\* credentials, authenticate is called exactly once, and if it succeeds the
\* very same intent is run exactly once more, at once (no other intent is
\* dequeued in between); no intent is ever run more than twice.
C6_OneLoginOneReplay ==
    /\ job.logins <= 1
    /\ Len(job.ran) <= 2
    /\ \A i \in 1..Len(job.ran) : job.ran[i] = Unwrap(job.event)
    /\ job.login_ok <=> Len(job.ran) = 2
    /\ job.login_ok => job.logins = 1
    /\ replay <=> (job.login_ok /\ d_pc # "recv")
    /\ (d_pc \in {"fatal_relogin", "fatal_replay"} \/ replay) =>
            (credentials /\ job.logins = 1)

C6_Witness ==
    /\ credentials /\ job.login_ok /\ replay
    /\ job.ran = << <<"Delete", "h1">>, <<"Delete", "h1">> >>
    /\ d_pc = "signal"
    /\ api_q # <<>>

\* C7: nobody holds the snapshot lock while suspended on anything but the
\* lock itself: not the render loop while it waits for room in the intent
\* queue, not the dispatcher while it awaits a call or the signal queue.
C7_LockNotHeldAcrossSuspension ==
    /\ app_lock = "ui" => ~UiBlockedSending
    /\ app_lock = "api" => d_pc \notin NetPcs \cup {"signal", "recv"}

\* ===================================================================
\* Properties of the merging steps (checked under SpecDelta)
\* ===================================================================
\* `new` is `old` with exactly the fields present in `info` overwritten.
JobMerged(old, new, info) ==
    /\ new.hash = old.hash
    /\ new.num_seeds = old.num_seeds
    /\ new.progress = (IF IsSome(info.progress) THEN Unwrap(info.progress) ELSE old.progress)
    /\ new.state = (IF IsSome(info.state) THEN Unwrap(info.state) ELSE old.state)

StatsMerged(old, new, ss) ==
    /\ new.dl_info_speed =
          (IF IsSome(ss.dl_info_speed) THEN Unwrap(ss.dl_info_speed) ELSE old.dl_info_speed)
    /\ new.use_alt_speed_limits =
          (IF IsSome(ss.use_alt_speed_limits) THEN Unwrap(ss.use_alt_speed_limits)
           ELSE old.use_alt_speed_limits)

\* C11: merging a delta overwrites, in the job with the same hash, exactly the
\* fields the delta carries and leaves its other fields, every other job, the
\* job order and the stats as they were (when the delta names an unknown hash
\* the loop stops there, so a job is either merged in this way or untouched);
\* merging server_state overwrites exactly the stats fields it carries and
\* leaves the jobs alone.
C11_MergeOverwritesPresentFields ==
    [][/\ (step'.name = "torrents" /\ step' # step /\ IsSome(step'.arg)) =>
            LET delta == Unwrap(step'.arg)
                known == DOMAIN delta \subseteq HashSet(app.torrents)
            IN  /\ Len(app'.torrents) = Len(app.torrents)
                /\ \A i \in 1..Len(app.torrents) :
                      LET old == app.torrents[i]
                          new == app'.torrents[i]
                      IN  IF old.hash \notin DOMAIN delta THEN new = old
                          ELSE IF known THEN JobMerged(old, new, delta[old.hash])
                          ELSE new = old \/ JobMerged(old, new, delta[old.hash])
                /\ should_reload' = ~known
                /\ app'.transfer_info = app.transfer_info
       /\ (step'.name = "server_state" /\ step' # step /\ IsSome(step'.arg)) =>
                /\ StatsMerged(app.transfer_info, app'.transfer_info, Unwrap(step'.arg))
                /\ app'.torrents = app.torrents
       /\ (step' # step /\ step'.arg = None) => app' = app]_vars

C11_Witness ==
    /\ step.name = "torrents" /\ IsSome(step.arg)
    /\ DOMAIN Unwrap(step.arg) = {"h1"}
    /\ Unwrap(step.arg)["h1"] = [progress |-> Some(1), state |-> None]
    /\ step.before = <<[hash |-> "h1", progress |-> 0, state |-> "pausedDL", num_seeds |-> 1],
                       [hash |-> "h2", progress |-> 0, state |-> "downloading", num_seeds |-> 0]>>
    /\ app.torrents[1].progress = 1
    /\ app.torrents[1].state = "pausedDL"

\* The jobs of new are jobs of old, unchanged, in the order they have in old.
KeptInOrder(old, new) ==
    \E pos \in [1..Len(new) -> 1..Len(old)] :
        /\ \A i \in 1..Len(new) : new[i] = old[pos[i]]
        /\ \A i, j \in 1..Len(new) : i < j => pos[i] < pos[j]

\* C19: a torrents_removed list takes out exactly the jobs whose hash it
\* names and keeps every other job, unchanged and in order; a list naming only
\* absent hashes changes nothing; and the same list applied once more changes
\* nothing.
C19_RemovalIdempotent ==
    [][/\ (step'.name = "torrents_removed" /\ step' # step /\ IsSome(step'.arg)) =>
            LET removed == Unwrap(step'.arg)
            IN  /\ HashSet(app'.torrents) = HashSet(app.torrents) \ removed
                /\ KeptInOrder(app.torrents, app'.torrents)
                /\ Len(app'.torrents) = Cardinality(HashSet(app.torrents) \ removed)
                /\ (removed \cap HashSet(app.torrents) = {}) => app' = app
                /\ app' = [app EXCEPT !.torrents = app'.torrents]
       /\ (step'.name = "torrents_removed_again" /\ step' # step) => app' = app]_vars

C19_Witness ==
    /\ step.name = "torrents_removed_again"
    /\ step.arg = Some({"h1"})
    /\ Len(step.before) = 2
    /\ step.before[1].hash = "h1"
    /\ app.torrents = <<step.before[2]>>

\* ===================================================================
\* Session recovery and connection state (checked under SpecConc)

\* C13: when an intent has failed with NotAuthenticated and the process holds
\* no credentials, the step by which the dispatcher leaves the login point of
\* handle_error does not crash it, makes no authenticate call, and sets the
\* keep-running flag to false with reason "Not authenticated".
C13_NoCredentialsFatalShutdown ==
    [][(~credentials /\ d_pc = "login" /\ d_pc' # d_pc) =>
            /\ d_pc' # "panicked"
            /\ job'.logins = job.logins
            /\ ~app'.is_running
            /\ app'.forced_shutdown_reason = Some("Not authenticated")]_vars

C15_FailedReplayShutsDown ==
    /\ [][(replay /\ IsSome(job'.err) /\ job'.err # job.err) =>
            /\ d_pc' = "fatal_replay"
            /\ job'.err \in {Some("External"), Some("NotAuthenticated")}]_vars
    /\ [][(d_pc = "fatal_replay" /\ d_pc' # d_pc) =>
            /\ app' = [app EXCEPT !.is_running = FALSE,
                                  !.forced_shutdown_reason = Some("Not authenticated")]
            /\ d_pc' = "recv" /\ ~replay'
            /\ job' = job /\ job.logins = 1 /\ Len(job.ran) = 2]_vars
    /\ [][(replay /\ d_pc' # d_pc) =>
            d_pc' \notin {"external", "check_running", "login", "fatal_relogin"}]_vars

C15_Witness ==
    /\ ~app.is_running
    /\ app.forced_shutdown_reason = Some("Not authenticated")
    /\ d_pc = "recv"
    /\ job.err = Some("External")
    /\ job.logins = 1 /\ job.login_ok
    /\ job.ran = << <<"Sync">>, <<"Sync">> >>

\* C16 as stated: whenever the dispatcher returns to the queue from an intent
\* whose last execution failed with External, the session is disconnected,
\* the attempt counter has grown by exactly one and the keep-running flag is
\* as it was.
C16_EveryTransportFailureCounts ==
    [][(job.err = Some("External") /\ d_pc # "recv" /\ d_pc' = "recv") =>
            /\ ~app'.is_connected
            /\ app'.error_reconnection_attempt_n = app.error_reconnection_attempt_n + 1
            /\ app'.is_running = app.is_running]_vars

\* C16: an intent whose first execution (not the replay of session recovery)
\* returns External to the dispatcher loop
\* goes to the External arm of handle_error, whose step marks the session
\* disconnected, adds exactly one to the attempt counter, shows the job list
\* and changes nothing else (the keep-running flag included); the counter
\* changes nowhere else but at the reset of a successful intent, and the
\* session is connected exactly when the counter is 0, so k such failures in
\* a row from Connected give Disconnected with counter k.
C16_TransportFailureCounts ==
    /\ [][(~replay /\ job'.err = Some("External") /\ job'.err # job.err) =>
            d_pc' = "external"]_vars
    /\ [][(d_pc = "external" /\ d_pc' # d_pc) =>
            /\ app' = [app EXCEPT !.is_connected = FALSE,
                                  !.error_reconnection_attempt_n = @ + 1,
                                  !.current_route = "Torrents"]
            /\ app'.is_running = app.is_running
            /\ d_pc' = "recv"]_vars
    /\ [][(app'.error_reconnection_attempt_n # app.error_reconnection_attempt_n) =>
            (d_pc \in {"external", "connected"} /\ d_pc' # d_pc)]_vars
    /\ [](app.is_connected <=> app.error_reconnection_attempt_n = 0)

C16_Witness ==
    /\ ~app.is_connected
    /\ app.error_reconnection_attempt_n = 2
    /\ app.is_running
    /\ d_pc = "recv"
    /\ job.err = Some("External") /\ job.logins = 0

\* C17 as stated: whenever the dispatcher returns to the queue from an intent
\* during which some Remote Client call returned success, the session is
\* connected and the attempt counter is 0.
C17_AnySuccessfulCallResets ==
    [][(job.ok_call /\ d_pc # "recv" /\ d_pc' = "recv") =>
            /\ app'.is_connected
            /\ app'.error_reconnection_attempt_n = 0]_vars

\* C17: the reset is the last locked step of a handle that returned no error:
\* that step sets the session connected and the attempt counter to 0 and
\* changes nothing else; every intent, of any kind, whose last execution
\* returned no error leaves the session connected with counter 0; and the
\* session becomes connected at no other step.
C17_CompletedIntentResets ==
    /\ [][(d_pc = "connected" /\ d_pc' # d_pc) =>
            app' = [app EXCEPT !.is_connected = TRUE,
                               !.error_reconnection_attempt_n = 0]]_vars
    /\ [][(job.err = None /\ d_pc # "recv" /\ d_pc' = "recv") =>
            /\ app'.is_connected
            /\ app'.error_reconnection_attempt_n = 0]_vars
    /\ [][(app'.is_connected /\ ~app.is_connected) =>
            (d_pc = "connected" /\ d_pc' # d_pc)]_vars

C17_Witness ==
    /\ job.attempt_n = 2
    /\ job.err = None /\ job.ran = << <<"Delete", "h1">> >>
    /\ d_pc = "recv"
    /\ app.is_connected
    /\ app.error_reconnection_attempt_n = 0

\* ===================================================================
\* Startup login (checked under SpecStart)

\* C21: once the startup login has run on an answer of the server, a 200
\* with body "Ok." is success and startup goes on; a 200 with body "Fails."
\* is WrongCredentials, a 403 is TooManyAttempts and any other status is the
\* internal error; and every failure has ended the process with the message
\* of its kind.
C21_LoginOutcomes ==
    (step.name = "login" /\ step.response.sent) =>
        LET resp == step.response
        IN  /\ (resp.status = 200 /\ resp.body = "Ok.") =>
                    (step.outcome = "Ok." /\ pc = "main")
            /\ (resp.status = 200 /\ resp.body = "Fails.") =>
                    (/\ step.outcome = "WrongCredentials" /\ pc = "exited"
                     /\ step.message = Some("Check credentials!"))
            /\ resp.status = 403 =>
                    (/\ step.outcome = "TooManyAttempts" /\ pc = "exited"
                     /\ step.message = Some("Too many failed login attempts!"))
            /\ resp.status \notin {200, 403} =>
                    (/\ step.outcome = "External" /\ pc = "exited"
                     /\ step.message = Some("Check connection!"))

\* ===================================================================
\* Signals, shutdown and reconnection (checked under SpecConcFair)

\* The process is on its way out: the keep-running flag is false, or the
\* render loop has left its loop or crashed.
ShuttingDown == ~app.is_running \/ ui_pc \notin {"select", "send", "check"}

\* C22: whenever a Pause, Resume, Delete or DeleteFiles call has returned
\* success (the Tick is in the dispatcher's hands), a Sync intent is later
\* taken up by the dispatcher, unless the process is shutting down.
C22_TickBringsSync ==
    (d_pc = "connected" /\ input_event = Some("Tick")) ~>
        ((d_pc = "net" /\ current_event = <<"Sync">>) \/ ShuttingDown)

\* ===================================================================
\* The Files arm (checked under SpecFiles)

\* C23: once a Files intent has been handled, the view is the file list and
\* Redraw has been enqueued if and only if there was a current torrent and
\* the listing had more than one file; otherwise (one file, no file, no
\* current torrent) the view is the one before and nothing was enqueued.
C23_FilesViewOnlyForSeveralFiles ==
    (step.name = "files" /\ d_pc = "recv") =>
        IF IsSome(step.current_torrent) /\ step.files_len > 1
        THEN app.current_route = "Files" /\ ui_q = <<"Redraw">>
        ELSE app.current_route = step.route /\ ui_q = <<>>

\* ===================================================================
\* The input handlers of the render loop (ui.rs run, handlers/*.rs), one
\* input event at a time on a snapshot with its view state.
\* ===================================================================

\* TorrentInfoState, with the discriminant `state as i32` sorts by.
TorrentInfoState ==
    {"unknown", "forcedDL", "downloading", "forcedMetaDL", "metaDL", "stalledDL",
     "forcedUP", "uploading", "stalledUP", "checkingResumeData", "queuedDL",
     "queuedUP", "checkingUP", "checkingDL", "pausedDL", "pausedUP", "moving",
     "missingFiles", "error", "allocating"}

state_as_i32(s) ==
    CASE s = "unknown" -> 0 - 1
      [] s = "forcedDL" -> 0
      [] s = "downloading" -> 1
      [] s = "forcedMetaDL" -> 2
      [] s = "metaDL" -> 3
      [] s = "stalledDL" -> 4
      [] s = "forcedUP" -> 5
      [] s = "uploading" -> 6
      [] s = "stalledUP" -> 7
      [] s = "checkingResumeData" -> 8
      [] s = "queuedDL" -> 9
      [] s = "queuedUP" -> 10
      [] s = "checkingUP" -> 11
      [] s = "checkingDL" -> 12
      [] s = "pausedDL" -> 13
      [] s = "pausedUP" -> 14
      [] s = "moving" -> 15
      [] s = "missingFiles" -> 16
      [] s = "error" -> 17
      [] s = "allocating" -> 18

\* Variant: only a paused download counts as not running.
is_running_but_for_paused_download(t) == t.state # "pausedDL"

\* TorrentInfo::is_running
is_running(t) == t.state # "pausedUP" /\ t.state # "pausedDL"

\* Strings the user types and job names are sequences of characters.
LowerChar(c) == CASE c = "X" -> "x" [] c = "O" -> "o" [] c = "J" -> "j"
                  [] c = "K" -> "k" [] OTHER -> c

\* str::to_lowercase
lowercase(s) == [i \in 1..Len(s) |-> LowerChar(s[i])]

\* str::trim
RECURSIVE trim_start(_)
trim_start(s) == IF s # <<>> /\ Head(s) = " " THEN trim_start(Tail(s)) ELSE s

RECURSIVE trim_end(_)
trim_end(s) ==
    IF s # <<>> /\ s[Len(s)] = " " THEN trim_end(SubSeq(s, 1, Len(s) - 1)) ELSE s

trim(s) == trim_end(trim_start(s))

\* split(' ') joined with ".": every space becomes a dot.
dotted(s) == [i \in 1..Len(s) |-> IF s[i] = " " THEN "." ELSE s[i]]

\* str::contains
contains(s, pat) ==
    \E i \in 1..(Len(s) + 1) :
        /\ i + Len(pat) - 1 <= Len(s)
        /\ SubSeq(s, i, i + Len(pat) - 1) = pat

\* Byte value of a one-character name or category (partial_cmp on strings).
CharOrdinal(c) ==
    CASE c = "" -> 0 [] c = "B" -> 66 [] c = "a" -> 97 [] c = "b" -> 98
      [] c = "r" -> 114 [] c = "x" -> 120

\* Vec::sort_by, a stable sort: x goes behind every element that does not
\* compare greater than it.  `key` maps each element to its rank.
RECURSIVE sort_by_insert(_, _, _)
sort_by_insert(sorted, x, key) ==
    IF sorted = <<>> THEN <<x>>
    ELSE IF key[Head(sorted)] <= key[x]
         THEN <<Head(sorted)>> \o sort_by_insert(Tail(sorted), x, key)
         ELSE <<x>> \o sorted

RECURSIVE sort_by(_, _)
sort_by(s, key) ==
    IF s = <<>> THEN <<>>
    ELSE sort_by_insert(sort_by(SubSeq(s, 1, Len(s) - 1), key), s[Len(s)], key)

Filter(s, keep) ==
    LET F[i \in 0..Len(s)] ==
            IF i = 0 THEN <<>>
            ELSE IF keep[s[i]] THEN Append(F[i - 1], s[i]) ELSE F[i - 1]
    IN  F[Len(s)]

\* The sort orders: None, Some("Asc"), Some("Desc").
SortOrders == OptionOf({"Asc", "Desc"})

\* next_sort_order
next_sort_order(curr) ==
    IF curr = Some("Asc") THEN Some("Desc")
    ELSE IF curr = Some("Desc") THEN None
    ELSE Some("Asc")

\* &self.categories[i - 2] of get_visible_torrents is out of range.
VisiblePanics(a) ==
    /\ a.selected_category[1] = "Category"
    /\ a.selected_category[2] - 1 \notin 1..Len(a.categories)

\* App::get_visible_torrents (defined where VisiblePanics is false)
get_visible_torrents(a) ==
    LET ts == Range(a.torrents)
        in_category ==
            [t \in ts |->
                CASE a.selected_category = SelectedAll -> TRUE
                  [] a.selected_category = SelectedUncategorized -> t.category = ""
                  [] OTHER -> t.category = a.categories[a.selected_category[2] - 1]]
        normal_value == lowercase(trim(a.search_value))
        dotted_value == dotted(normal_value)
        named ==
            [t \in ts |->
                \/ contains(lowercase(t.name), normal_value)
                \/ contains(lowercase(t.name), dotted_value)]
        res == Filter(Filter(a.torrents, in_category), named)
        by_name ==
            IF a.name_sort_order = Some("Asc")
            THEN sort_by(res, [t \in ts |-> CharOrdinal(t.name[1])])
            ELSE IF a.name_sort_order = Some("Desc")
            THEN sort_by(res, [t \in ts |-> 0 - CharOrdinal(t.name[1])])
            ELSE res
        by_category ==
            IF a.category_sort_order = Some("Asc")
            THEN sort_by(by_name, [t \in ts |-> CharOrdinal(t.category)])
            ELSE IF a.category_sort_order = Some("Desc")
                    /\ a.selected_category = SelectedAll
            THEN sort_by(by_name, [t \in ts |-> 0 - CharOrdinal(t.category)])
            ELSE by_name
    IN  IF a.status_sort_order = Some("Asc")
        THEN sort_by(by_category, [t \in ts |-> state_as_i32(t.state)])
        ELSE IF a.status_sort_order = Some("Desc")
        THEN sort_by(by_category, [t \in ts |-> 0 - state_as_i32(t.state)])
        ELSE by_category

\* App::get_selected_torrent: None, or Some(the job under the cursor)
get_selected_torrent(a) ==
    IF IsSome(a.torrents_table.selected)
       /\ Unwrap(a.torrents_table.selected) + 1 \in 1..Len(get_visible_torrents(a))
    THEN Some(get_visible_torrents(a)[Unwrap(a.torrents_table.selected) + 1])
    ELSE None

\* ------------------------------------------------- outcomes of a handler
\* What handling one input event does: the snapshot after it, the intent it
\* sent (if any) and whether it panicked.
Done(a) == {[app |-> a, sent |-> None, panic |-> FALSE]}
Sends(a, intent) == {[app |-> a, sent |-> Some(intent), panic |-> FALSE]}
Panics(a) == {[app |-> a, sent |-> None, panic |-> TRUE]}

\* KeyEvent: a key code with its modifiers.
Plain(key, codes) == key.modifiers = "NONE" /\ key.code \in codes
Shifted(key, codes) == key.modifiers = "SHIFT" /\ key.code \in codes

\* KeyCode::Char(c): the codes that stand for one character.
CharCodes == {"q", "r", "x", "c", "i", "o", "p", "s", "j", "k", "t", "h", "l",
              "/", "?", " ", "X", "O", "J", "K"}

\* What Path::new(content_path) is on the local file system: a directory, a
\* file, missing (its parent exists) or gone (its parent is missing as well).
PathKinds == {"dir", "file", "missing", "gone"}

\* usize::MAX, the value of `0 - 1` where the build wraps; it is greater than
\* every length.
usize_MAX == 0 - 1

\* List navigation (next_* / prev_* of every list handler): the index to
\* select.  `items.len() - 1` on an empty list is an overflow, which panics
\* or wraps with the build.
next_index(selected, len) ==
    IF selected = None THEN {Some(0)}
    ELSE IF len = 0 THEN {None, Some(Unwrap(selected) + 1)}
    ELSE IF Unwrap(selected) >= len - 1 THEN {Some(0)}
    ELSE {Some(Unwrap(selected) + 1)}

prev_index(selected, len) ==
    IF selected = None THEN {Some(0)}
    ELSE IF Unwrap(selected) = 0
         THEN IF len = 0 THEN {None, Some(usize_MAX)} ELSE {Some(len - 1)}
    ELSE {Some(Unwrap(selected) - 1)}

\* get_selected_torrent panics inside get_visible_torrents.
SelectedPanics(a) == IsSome(a.torrents_table.selected) /\ VisiblePanics(a)

\* App::set_current_action
set_current_action(a, action) ==
    [a EXCEPT !.current_action = Some(action), !.confirm = FALSE,
              !.current_route = "Dialog"]

\* App::reset_current_action
reset_current_action(a) ==
    [a EXCEPT !.current_action = None, !.confirm = FALSE, !.current_route = "Torrents"]

\* Variant: confirming also takes the job out of the list at once.
apply_current_action_dropping_the_job(a) ==
    IF ~a.confirm THEN Done(reset_current_action(a))
    ELSE IF SelectedPanics(a) THEN Panics(a)
    ELSE IF IsSome(get_selected_torrent(a)) /\ IsSome(a.current_action)
    THEN Sends([reset_current_action(a) EXCEPT
                    !.torrents = Filter(a.torrents,
                        [t \in Range(a.torrents) |->
                            t.hash # Unwrap(get_selected_torrent(a)).hash])],
               <<Unwrap(a.current_action), Unwrap(get_selected_torrent(a)).hash>>)
    ELSE Done(reset_current_action(a))

\* App::apply_current_action
apply_current_action(a) ==
    IF ~a.confirm THEN Done(reset_current_action(a))
    ELSE IF SelectedPanics(a) THEN Panics(a)
    ELSE IF IsSome(get_selected_torrent(a)) /\ IsSome(a.current_action)
    THEN Sends(reset_current_action(a),
               <<Unwrap(a.current_action), Unwrap(get_selected_torrent(a)).hash>>)
    ELSE Done(reset_current_action(a))

\* App::select_first_torrent
select_first_torrent(a) ==
    IF VisiblePanics(a) THEN Panics(a)
    ELSE IF get_visible_torrents(a) = <<>> THEN Done(a)
    ELSE Done([a EXCEPT !.torrents_table.selected = Some(0)])

\* App::choose_selected_category on the row under the cursor of the category
\* list, with the job table's cursor cleared.
choose_category_under_cursor(a) ==
    IF IsSome(a.categories_list.selected)
    THEN [choose_selected_category(a, Unwrap(a.categories_list.selected))
            EXCEPT !.torrents_table.selected = None]
    ELSE a

\* handlers::sort::handle_sort_order_change
handle_sort_order_change(a, i) ==
    CASE i = 0 -> Done([a EXCEPT !.category_sort_order = next_sort_order(@)])
      [] i = 1 -> Done([a EXCEPT !.name_sort_order = next_sort_order(@)])
      [] i = 2 -> Done([a EXCEPT !.status_sort_order = next_sort_order(@)])
      [] OTHER -> Panics(a)

\* The torrents handler's "open": a file is opened, a directory is listed
\* (Files), a missing path raises the notification.
open_content(a, torrent, path) ==
    CASE path = "file" -> Done(a)
      [] path = "dir" -> Sends(a, <<"Files", torrent.hash>>)
      [] OTHER -> Done([a EXCEPT !.notification = Some("FileNotFound")])

\* A list whose index moves: the outcomes, with a panic for the overflow.
Moved(a, indexes, list) ==
    {IF i = None
     THEN [app |-> a, sent |-> None, panic |-> TRUE]
     ELSE [app |-> [a EXCEPT ![list].selected = i], sent |-> None, panic |-> FALSE] :
        i \in indexes}

\* handlers::torrents::handle_key_event
torrents_key(a, key, path) ==
    LET focused == get_selected_torrent(a)
    IN  CASE Plain(key, {"F1", "?"}) ->
                Done([a EXCEPT !.on_help_route = Some(a.current_route),
                               !.current_route = "Help"])
          [] Plain(key, {"q", "Esc"}) -> Done([a EXCEPT !.is_running = FALSE])
          [] Plain(key, {"j", "Down"}) ->
                Moved(a, next_index(a.torrents_table.selected, a.torrents_table.items_len),
                      "torrents_table")
          [] Plain(key, {"k", "Up"}) ->
                Moved(a, prev_index(a.torrents_table.selected, a.torrents_table.items_len),
                      "torrents_table")
          [] Plain(key, {"/"}) -> Done([a EXCEPT !.current_route = "Search"])
          [] Plain(key, {"c"}) -> Done([a EXCEPT !.current_route = "Categories"])
          [] Plain(key, {"t"}) -> Done([a EXCEPT !.current_route = "Sort"])
          [] Plain(key, {"r"}) -> Sends(a, <<"Reload">>)
          [] Plain(key, {"i", "o", "Enter", " ", "p", "s", "x"})
             \/ Shifted(key, {"O", "X"}) ->
                IF SelectedPanics(a) THEN Panics(a)
                ELSE IF focused = None THEN Done(a)
                ELSE LET torrent == Unwrap(focused)
                     IN (CASE Plain(key, {"i"}) ->
                                Done([a EXCEPT !.current_torrent = focused,
                                               !.current_route = "Info"])
                           [] Plain(key, {"o", "Enter"}) ->
                                open_content([a EXCEPT !.current_torrent = focused],
                                             torrent, path)
                           [] Plain(key, {" "}) ->
                                IF is_running(torrent)
                                THEN Sends(a, <<"Pause", torrent.hash>>)
                                ELSE Sends(a, <<"Resume", torrent.hash>>)
                           [] Plain(key, {"p"}) -> Sends(a, <<"Pause", torrent.hash>>)
                           [] Plain(key, {"s"}) -> Sends(a, <<"Resume", torrent.hash>>)
                           [] Plain(key, {"x"}) -> Done(set_current_action(a, "Delete"))
                           [] Shifted(key, {"X"}) ->
                                Done(set_current_action(a, "DeleteFiles"))
                           [] Shifted(key, {"O"}) ->
                                IF path = "gone"
                                THEN Done([a EXCEPT !.notification = Some("FileNotFound")])
                                ELSE Done(a))
          [] OTHER -> Done(a)

\* handlers::sort::handle_key_event
sort_key(a, key) ==
    CASE Plain(key, {"q", "t", "Esc"}) -> Done([a EXCEPT !.current_route = "Torrents"])
      [] Plain(key, {"j", "Down"}) ->
            Moved(a, next_index(a.sort_list.selected, a.sort_list.items_len), "sort_list")
      [] Plain(key, {"k", "Up"}) ->
            Moved(a, prev_index(a.sort_list.selected, a.sort_list.items_len), "sort_list")
      [] Plain(key, {"Enter"}) ->
            IF IsSome(a.sort_list.selected)
            THEN handle_sort_order_change(a, Unwrap(a.sort_list.selected))
            ELSE Done(a)
      [] OTHER -> Done(a)

\* handlers::categories::handle_key_event
categories_key(a, key) ==
    CASE Plain(key, {"q", "c", "Esc"}) -> Done([a EXCEPT !.current_route = "Torrents"])
      [] Plain(key, {"j", "Down"}) ->
            Moved(a, next_index(a.categories_list.selected, a.categories_list.items_len),
                  "categories_list")
      [] Plain(key, {"k", "Up"}) ->
            Moved(a, prev_index(a.categories_list.selected, a.categories_list.items_len),
                  "categories_list")
      [] Plain(key, {"Enter"}) ->
            Done([choose_category_under_cursor(a) EXCEPT !.current_route = "Torrents"])
      [] OTHER -> Done(a)

\* handlers::search::handle_key_event
search_key(a, key) ==
    CASE Plain(key, {"Esc"}) ->
            select_first_torrent([a EXCEPT !.search_value = <<>>,
                                           !.current_route = "Torrents"])
      [] Plain(key, {"Enter"}) ->
            select_first_torrent([a EXCEPT !.current_route = "Torrents"])
      [] Plain(key, {"Backspace"}) ->
            IF a.search_value # <<>>
            THEN Done([a EXCEPT !.search_value = SubSeq(@, 1, Len(@) - 1)])
            ELSE Done(a)
      [] Plain(key, CharCodes) \/ Shifted(key, CharCodes) ->
            Done([a EXCEPT !.search_value = Append(@, key.code)])
      [] OTHER -> Done(a)

\* Scrolling of the help and info texts (ScrollableTextState.scroll).
scroll_key(a, key, text) ==
    CASE Plain(key, {"j", "Down"}) -> Done([a EXCEPT ![text].scroll = @ + 1])
      [] Plain(key, {"k", "Up"}) ->
            Done([a EXCEPT ![text].scroll = IF @ >= 1 THEN @ - 1 ELSE @])
      [] Shifted(key, {"J"}) -> Done([a EXCEPT ![text].scroll = @ + 10])
      [] Shifted(key, {"K"}) ->
            Done([a EXCEPT ![text].scroll = IF @ >= 10 THEN @ - 10 ELSE 0])
      [] OTHER -> Done(a)

\* handlers::help::handle_key_event
help_key(a, key) ==
    IF Plain(key, {"F1", "q", "Esc"})
    THEN IF a.on_help_route = None THEN Panics(a)
         ELSE Done([a EXCEPT !.current_route = Unwrap(a.on_help_route),
                             !.on_help_route = None])
    ELSE scroll_key(a, key, "help_state")

\* handlers::info::handle_key_event
info_key(a, key) ==
    IF Plain(key, {"q", "Esc"})
    THEN Done([a EXCEPT !.current_route = "Torrents"])
    ELSE scroll_key(a, key, "info_state")

\* handlers::dialog::handle_key_event
dialog_key(a, key) ==
    CASE Plain(key, {"q", "Esc"}) -> Done(reset_current_action(a))
      [] Plain(key, {"h", "l", "Left", "Right"}) -> Done([a EXCEPT !.confirm = ~@])
      [] Plain(key, {"Enter"}) -> apply_current_action(a)
      [] OTHER -> Done(a)

\* handlers::files::open_file; current_torrent_files is the number of files.
open_file(a, path) ==
    IF a.files_list.selected = None THEN Done(a)
    ELSE IF a.current_torrent_files = None
            \/ Unwrap(a.files_list.selected) + 1
                    \notin 1..Unwrap(a.current_torrent_files)
            \/ a.current_torrent = None
    THEN Panics(a)
    ELSE IF path \in {"dir", "file"} THEN Done(a)
    ELSE Done([a EXCEPT !.notification = Some("FileNotFound")])

\* handlers::files::handle_key_event
files_key(a, key, path) ==
    CASE Plain(key, {"q", "Esc"}) ->
            Done([a EXCEPT !.current_torrent_files = None, !.current_route = "Torrents"])
      [] Plain(key, {"j", "Down"}) ->
            Moved(a, next_index(a.files_list.selected, a.files_list.items_len),
                  "files_list")
      [] Plain(key, {"k", "Up"}) ->
            Moved(a, prev_index(a.files_list.selected, a.files_list.items_len),
                  "files_list")
      [] Plain(key, {"o", "Enter"}) -> IF a.remote THEN Done(a) ELSE open_file(a, path)
      [] OTHER -> Done(a)

\* handlers::notification::handle_key_event
notification_key(a, key) ==
    IF Plain(key, {"q", "Esc", "Enter"})
    THEN Done([a EXCEPT !.notification = None])
    ELSE Done(a)

\* handlers::error::handle_key_event
error_key(a, key) ==
    CASE Plain(key, {"q", "Esc"}) -> Done([a EXCEPT !.is_running = FALSE])
      [] Plain(key, {"r"}) -> Sends(a, <<"Reload">>)
      [] OTHER -> Done(a)

\* App::handle_key_event
handle_key_event(a, key, path) ==
    CASE a.current_route = "Torrents" -> torrents_key(a, key, path)
      [] a.current_route = "Sort" -> sort_key(a, key)
      [] a.current_route = "Search" -> search_key(a, key)
      [] a.current_route = "Help" -> help_key(a, key)
      [] a.current_route = "Categories" -> categories_key(a, key)
      [] a.current_route = "Dialog" -> dialog_key(a, key)
      [] a.current_route = "Info" -> info_key(a, key)
      [] a.current_route = "Files" -> files_key(a, key, path)

\* Variant: the key goes to the view's handler whatever the connection state.
run_key_whatever_the_connection(a, key, path) ==
    IF a.notification # None THEN notification_key(a, key)
    ELSE handle_key_event(a, key, path)

\* run, Event::Key
run_key(a, key, path) ==
    IF a.is_connected
    THEN IF a.notification # None THEN notification_key(a, key)
         ELSE handle_key_event(a, key, path)
    ELSE error_key(a, key)

\* MouseEvent: a left button press on row `i` of the list (`inside` its
\* rectangle or not) within 500 ms of the press before (`double`), or any
\* other kind of mouse event.
MouseRows == 0..2
MouseEvents ==
    [kind : {"DownLeft"}, inside : BOOLEAN, i : MouseRows, double : BOOLEAN]
    \cup [kind : {"Moved"}, inside : {FALSE}, i : {0}, double : {FALSE}]

\* handlers::torrents::handle_mouse_event
torrents_mouse(a, m, path) ==
    IF m.kind # "DownLeft" \/ ~m.inside THEN Done(a)
    ELSE LET a1 == IF a.torrents_table.items_len > m.i
                   THEN [a EXCEPT !.torrents_table.selected = Some(m.i)]
                   ELSE a
             focused == get_selected_torrent(a1)
             a2 == [a1 EXCEPT !.current_torrent = focused]
         IN  IF SelectedPanics(a1) THEN Panics(a1)
             ELSE IF focused = None THEN Done(a1)
             ELSE IF m.double /\ a1.current_torrent # None
                     /\ Unwrap(focused).hash = Unwrap(a1.current_torrent).hash
             THEN {[r EXCEPT !.app.current_torrent = focused] :
                        r \in open_content(a1, Unwrap(focused), path)}
             ELSE Done(a2)

\* handlers::sort::handle_mouse_event
sort_mouse(a, m) ==
    IF m.kind = "DownLeft" /\ m.inside /\ a.sort_list.items_len > m.i
    THEN handle_sort_order_change([a EXCEPT !.sort_list.selected = Some(m.i)], m.i)
    ELSE Done(a)

\* handlers::categories::handle_mouse_event
categories_mouse(a, m) ==
    IF m.kind = "DownLeft" /\ m.inside /\ a.categories_list.items_len > m.i
    THEN Done([choose_category_under_cursor(
                    [a EXCEPT !.categories_list.selected = Some(m.i)])
                EXCEPT !.current_route = "Torrents"])
    ELSE Done(a)

\* App::handle_mouse_event
handle_mouse_event(a, m, path) ==
    CASE a.current_route = "Torrents" -> torrents_mouse(a, m, path)
      [] a.current_route = "Sort" -> sort_mouse(a, m)
      [] a.current_route = "Categories" -> categories_mouse(a, m)
      [] OTHER -> Done(a)

\* run, Event::Mouse
run_mouse(a, m, path) ==
    IF a.is_connected /\ a.notification = None
    THEN handle_mouse_event(a, m, path)
    ELSE Done(a)

\* ------------------------------------------------------ the input events
KeyEvents ==
    [code : {"q", "r", "x", "c", "i", "o", "p", "s", "j", "k", "t", "h", "l", "/",
             "?", " ", "Esc", "Enter", "Backspace", "F1", "Down", "Up", "Left",
             "Right", "Tab"},
     modifiers : {"NONE"}]
    \cup [code : {"X", "O", "J", "K"}, modifiers : {"SHIFT"}]
    \cup [code : {"q", "r"}, modifiers : {"CONTROL"}]

\* ------------------------------------------- snapshots an input can meet
\* App::new, with the fields the handlers read and write.  The rectangles
\* of the lists, left_click and its time stamp are the `inside` and
\* `double` of a MouseEvent.
AppInputNew ==
    [torrents |-> <<>>,
     transfer_info |-> [use_alt_speed_limits |-> FALSE],
     categories |-> <<>>,
     selected_category |-> SelectedAll,
     is_connected |-> TRUE,
     is_running |-> TRUE,
     forced_shutdown_reason |-> None,
     error_reconnection_attempt_n |-> 0,
     current_route |-> "Torrents",
     on_help_route |-> None,
     notification |-> None,
     current_torrent |-> None,
     current_torrent_files |-> None,
     torrents_table |-> [items_len |-> 0, selected |-> None],
     categories_list |-> [items_len |-> 0, selected |-> Some(0)],
     sort_list |-> [items_len |-> 0, selected |-> None],
     files_list |-> [items_len |-> 0, selected |-> None],
     info_state |-> [scroll |-> 0],
     help_state |-> [scroll |-> 0],
     search_value |-> <<>>,
     current_action |-> None,
     confirm |-> FALSE,
     category_sort_order |-> Some("Asc"),
     name_sort_order |-> Some("Asc"),
     status_sort_order |-> Some("Asc"),
     trace_send_sync_event_n |-> 0,
     remote |-> FALSE]

\* Two jobs: "r" of category "a" and "x" without a category.
InputJob1(state) == [hash |-> "h1", name |-> <<"r">>, category |-> "a", state |-> state]
InputJob2 == [hash |-> "h2", name |-> <<"x">>, category |-> "", state |-> "uploading"]

InputTorrentLists ==
    {<<>>}
    \cup {<<InputJob1(s)>> : s \in JobStates}
    \cup {<<InputJob1(s), InputJob2>> : s \in JobStates}

\* What each view has set on its way in: the dialog its pending action, the
\* search its text, the file list its files, the help view the view to come
\* back to; a list that is drawn has its items.  A transport failure puts
\* the job list view over a pending action (handle_error).
InputViews ==
    [current_route : {"Torrents"}, current_action : {None, Some("Delete")},
     confirm : {FALSE}, search_value : {<<>>, <<"r">>}, files : {None},
     cursor : {0}]
    \cup [current_route : {"Dialog"}, current_action : {Some("Delete"), Some("DeleteFiles")},
          confirm : BOOLEAN, search_value : {<<>>}, files : {None}, cursor : {0}]
    \cup [current_route : {"Search"}, current_action : {None}, confirm : {FALSE},
          search_value : {<<>>, <<"r">>}, files : {None}, cursor : {0}]
    \cup [current_route : {"Files"}, current_action : {None}, confirm : {FALSE},
          search_value : {<<>>}, files : {Some(0), Some(2)}, cursor : {0}]
    \cup [current_route : {"Sort", "Categories"}, current_action : {None},
          confirm : {FALSE}, search_value : {<<>>}, files : {None}, cursor : {0, 2}]
    \cup [current_route : {"Help", "Info"}, current_action : {None}, confirm : {FALSE},
          search_value : {<<>>}, files : {None}, cursor : {0}]

InputSelectedCategories ==
    {SelectedAll, SelectedUncategorized, SelectedCategory(2), SelectedCategory(3)}

\* The snapshot of a view: the lists hold what the last draw put in them.
InputApp(torrents, connected, notification, selected, category, view) ==
    LET a == [AppInputNew EXCEPT
                !.torrents = torrents,
                !.categories = <<"a">>,
                !.selected_category = category,
                !.is_connected = connected,
                !.error_reconnection_attempt_n = IF connected THEN 0 ELSE 1,
                !.notification = notification,
                !.current_route = view.current_route,
                !.on_help_route =
                    IF view.current_route = "Help" THEN Some("Torrents") ELSE None,
                !.current_torrent =
                    IF view.current_route \in {"Info", "Files"} /\ torrents # <<>>
                    THEN Some(torrents[1]) ELSE None,
                !.current_torrent_files = view.files,
                !.files_list =
                    IF view.files = None THEN [items_len |-> 0, selected |-> None]
                    ELSE [items_len |-> Unwrap(view.files), selected |-> Some(0)],
                !.sort_list =
                    IF view.current_route = "Sort"
                    THEN [items_len |-> 3, selected |-> Some(view.cursor)]
                    ELSE [items_len |-> 0, selected |-> None],
                !.categories_list =
                    IF view.current_route = "Categories"
                    THEN [items_len |-> 3, selected |-> Some(view.cursor)]
                    ELSE [items_len |-> 0, selected |-> Some(0)],
                !.search_value = view.search_value,
                !.current_action = view.current_action,
                !.confirm = view.confirm]
    IN  [a EXCEPT !.torrents_table =
            [items_len |-> IF VisiblePanics(a) THEN 0 ELSE Len(get_visible_torrents(a)),
             selected |-> selected]]

\* Every view on a short job list, and the job list view on one job in each
\* of its states.
InputApps ==
    {InputApp(torrents, connected, notification, selected, category, view) :
        torrents \in InputTorrentLists, connected \in BOOLEAN,
        notification \in {None, Some("FileNotFound")},
        selected \in {None, Some(0), Some(1)},
        category \in InputSelectedCategories, view \in InputViews}
    \cup
    {InputApp(<<[InputJob1(s) EXCEPT !.category = ""]>>, connected, None, selected,
              SelectedAll,
              [current_route |-> "Torrents", current_action |-> None,
               confirm |-> FALSE, search_value |-> <<>>, files |-> None, cursor |-> 0]) :
        s \in TorrentInfoState, connected \in BOOLEAN, selected \in {None, Some(0)}}

InitInput ==
    /\ app \in InputApps
    /\ rid = 0
    /\ pc = "idle"
    /\ should_reload = FALSE
    /\ ui_pc = "select"
    /\ api_q = <<>>
    /\ ui_q \in {<<>>, <<"Tick">>, <<"Redraw">>}
    /\ ui_q # <<>> =>
            (app.current_route = "Help" /\ app.selected_category = SelectedAll)
    /\ app_lock = "free"
    /\ handler_lock = "free"
    /\ ui_pending = None
    /\ d_pc = "recv"
    /\ current_event = <<"Sync">>
    /\ replay = FALSE
    /\ input_event = None
    /\ event = None
    /\ credentials = TRUE
    /\ job = NoJob
    /\ cyc = NoCycle
    /\ step = [name |-> "input"]
    /\ seen_rid = 0
    /\ ledger = {}

inputUnchanged ==
    UNCHANGED <<rid, pc, should_reload, cyc, seen_rid, ledger, app_lock, handler_lock,
                ui_pending, d_pc, current_event, replay, input_event, event,
                credentials, job>>

\* The event arm has run: the snapshot, the intent queue and the loop's place.
Handled_input(r, name, input) ==
    /\ app' = r.app
    /\ api_q' = IF IsSome(r.sent) THEN Append(api_q, Unwrap(r.sent)) ELSE api_q
    /\ ui_pc' = IF r.panic THEN "crashed" ELSE "check"
    /\ step' = [name |-> name, input |-> input, before |-> app, sent |-> r.sent]

\* Event::Key(e): lock, the handler, redraw
InputKey ==
    /\ ui_pc = "select" /\ step.name = "input" /\ ui_q = <<>>
    /\ \E key \in KeyEvents, path \in PathKinds :
        \E r \in run_key(app, key, path) : Handled_input(r, "key", key)
    /\ UNCHANGED ui_q
    /\ inputUnchanged

\* Event::Mouse(e): lock, the handler, redraw
InputMouse ==
    /\ ui_pc = "select" /\ step.name = "input" /\ ui_q = <<>>
    /\ \E m \in MouseEvents, path \in PathKinds :
        \E r \in run_mouse(app, m, path) : Handled_input(r, "mouse", m)
    /\ UNCHANGED ui_q
    /\ inputUnchanged

\* Event::Resize and the other events: redraw at most
InputResize ==
    /\ ui_pc = "select" /\ step.name = "input" /\ ui_q = <<>>
    /\ \E r \in Done(app) : Handled_input(r, "resize", None)
    /\ UNCHANGED ui_q
    /\ inputUnchanged

\* Some(Err(err)) and None of the event stream: is_running = false
InputEnd ==
    /\ ui_pc = "select" /\ step.name = "input" /\ ui_q = <<>>
    /\ \E r \in Done([app EXCEPT !.is_running = FALSE]) : Handled_input(r, "end", None)
    /\ UNCHANGED ui_q
    /\ inputUnchanged

\* _ = sleep(timeout): app.sync(), trace_send_sync_event_n += 1
InputTick ==
    /\ ui_pc = "select" /\ step.name = "input" /\ ui_q = <<>>
    /\ \E r \in Sends([app EXCEPT !.trace_send_sync_event_n = @ + 1], <<"Sync">>) :
            Handled_input(r, "tick", None)
    /\ UNCHANGED ui_q
    /\ inputUnchanged

\* maybe_event = ui_rx.recv(): Tick -> app.sync(); Redraw -> redraw
InputSignal ==
    /\ ui_pc = "select" /\ step.name = "input" /\ ui_q # <<>>
    /\ ui_q' = Tail(ui_q)
    /\ \E r \in (IF Head(ui_q) = "Tick" THEN Sends(app, <<"Sync">>) ELSE Done(app)) :
            Handled_input(r, "signal", Some(Head(ui_q)))
    /\ inputUnchanged

NextInput ==
    \/ InputKey
    \/ InputMouse
    \/ InputResize
    \/ InputEnd
    \/ InputTick
    \/ InputSignal

SpecInput == InitInput /\ [][NextInput]_vars

\* ===================================================================
\* Input handling (checked under SpecInput)

\* The selection state of a snapshot: view, filter, sort, cursors, focused
\* job and pending action.
SelectionState(a) ==
    <<a.current_route, a.on_help_route, a.selected_category, a.search_value,
      a.category_sort_order, a.name_sort_order, a.status_sort_order,
      a.torrents_table, a.categories_list, a.sort_list, a.files_list,
      a.current_torrent, a.current_torrent_files, a.current_action, a.confirm>>

\* C24: a key event handled while disconnected has either enqueued Reload
\* and changed nothing, or set the keep-running flag to false and enqueued
\* nothing, or done nothing; a mouse event handled while disconnected has
\* done nothing; the selection state is the one before and no other intent
\* is enqueued.
C24_DisconnectedInputRetriesOrQuits ==
    (step.name \in {"key", "mouse"} /\ ~step.before.is_connected) =>
        /\ ui_pc = "check"
        /\ SelectionState(app) = SelectionState(step.before)
        /\ api_q \in {<<>>, << <<"Reload">> >>}
        /\ step.name = "mouse" => (app = step.before /\ api_q = <<>>)
        /\ step.name = "key" =>
            \/ app = step.before /\ api_q = << <<"Reload">> >>
            \/ app = [step.before EXCEPT !.is_running = FALSE] /\ api_q = <<>>
            \/ app = step.before /\ api_q = <<>>

C24_Witness ==
    /\ step.name = "key" /\ ~step.before.is_connected
    /\ step.before.current_route = "Dialog" /\ step.before.confirm
    /\ step.input = [code |-> "Enter", modifiers |-> "NONE"]
    /\ IsSome(get_selected_torrent(step.before))
    /\ app = step.before /\ api_q = <<>>

\* The focused job of a snapshot, if the cursor of the job table is on one.
Focused(a) == IF SelectedPanics(a) THEN None ELSE get_selected_torrent(a)

PausedStates == {"pausedDL", "pausedUP"}

\* C29: is_running is false for the two paused states and true for every
\* other state; and the toggle key, handled by the job list view, has
\* enqueued Resume for the focused job if that job was paused, Pause for it
\* if it was in any other state, and nothing if no job was focused.
C29_ToggleFollowsIsRunning ==
    /\ \A s \in TorrentInfoState : is_running([state |-> s]) <=> s \notin PausedStates
    /\ (/\ step.name = "key"
        /\ step.input = [code |-> " ", modifiers |-> "NONE"]
        /\ step.before.is_connected /\ step.before.notification = None
        /\ step.before.current_route = "Torrents") =>
            LET focused == Focused(step.before)
            IN  /\ app = step.before
                /\ api_q =
                    IF focused = None THEN <<>>
                    ELSE IF Unwrap(focused).state \in PausedStates
                    THEN << <<"Resume", Unwrap(focused).hash>> >>
                    ELSE << <<"Pause", Unwrap(focused).hash>> >>

C29_Witness ==
    /\ step.name = "key"
    /\ step.input = [code |-> " ", modifiers |-> "NONE"]
    /\ step.before.is_connected /\ step.before.notification = None
    /\ step.before.current_route = "Torrents"
    /\ Focused(step.before) # None
    /\ Unwrap(Focused(step.before)).state = "pausedUP"
    /\ api_q = << <<"Resume", "h1">> >>

\* C27: whatever input event the render loop has handled (a key, a mouse
\* event, a resize, the end of the input stream, the tick or a signal), the
\* job list, the transfer stats and the category list are the ones before.
C27_InputLeavesSyncedState ==
    step.name \in {"key", "mouse", "resize", "end", "tick", "signal"} =>
        /\ app.torrents = step.before.torrents
        /\ app.transfer_info = step.before.transfer_info
        /\ app.categories = step.before.categories

C27_Witness ==
    /\ step.name = "key"
    /\ step.before.current_route = "Dialog"
    /\ api_q = << <<"DeleteFiles", "h2">> >>
    /\ app.current_route = "Torrents"
    /\ Len(app.torrents) = 2

\* ===================================================================
\* The category list (checked under Spec)

\* C28: the category list never holds a name twice.
C28_CategoriesAreASet ==
    \A i, j \in 1..Len(app.categories) :
        app.categories[i] = app.categories[j] => i = j

\* ===================================================================
\* The cursor and the server's jobs (checked under Spec)

\* C30: when a Sync has been handled and the stored cursor is the one of
\* its response (the server's latest change id), the snapshot holds every
\* job the server told of in that response: either the full reload of the
\* cycle succeeded, or the response was a delta and each job it names that
\* the snapshot did not know is in the snapshot now.
C30_CursorOnlyPastAppliedChanges ==
    (/\ pc = "done" /\ cyc.op = "sync"
     /\ IsSome(cyc.resp_rid) /\ rid = Unwrap(cyc.resp_rid)) =>
        \/ cyc.reload = "ok"
        \/ /\ cyc.reload = "no" /\ ~cyc.full_update
           /\ cyc.unknown_hashes \subseteq HashSet(app.torrents)

\* ===================================================================
\* Shutdown (checked under SpecConcFair)

ServerFails ==
    /\ d_pc' # d_pc
    /\ d_pc' \in {"external", "check_running", "fatal_replay", "fatal_relogin"}

\* C26: if from some point on no call returns an error, then whenever the
\* session is Disconnected and the process still running, the session is
\* later Connected with attempt counter 0, unless the process shuts down.
C26_TickReconnects ==
    (<>[][~ServerFails]_vars) =>
        ((~app.is_connected /\ app.is_running) ~>
            ((app.is_connected /\ app.error_reconnection_attempt_n = 0) \/ ShuttingDown))

\* ===================================================================
\* The order of the steps inside one sync response (checked under Spec)
\* ===================================================================
\* C31: within one incremental sync response the removals are applied before
\* the updates, so that a hash named in both torrents_removed and torrents is
\* gone when its update is looked up, the update refers to an unknown hash
\* and the cycle invokes a full reload; the added categories are merged
\* before the selected category is compared with categories_removed, and that
\* comparison is made on the list before the removals.
C31_RemovalsThenUpdatesThenCategories ==
    /\ [][(InSync /\ step' # step) =>
            /\ step'.name = "torrents" => step.name = "torrents_removed"
            /\ step'.name = "categories" => step.name = "torrents"
            /\ step'.name = "categories_removed" => step.name = "categories"
            /\ (step'.name = "torrents" /\ IsSome(step'.arg)) =>
                    \A hash \in Unwrap(step'.arg) \cap cyc.removed_hashes :
                        /\ hash \notin HashSet(app.torrents)
                        /\ hash \in cyc'.unknown_hashes
                        /\ should_reload'
            /\ (step'.name = "categories_removed" /\ IsSome(step'.arg)
                    /\ pc' # "panicked" /\ app.selected_category[1] = "Category") =>
                    (app'.selected_category = SelectedAll) =
                        (app.categories[app.selected_category[2] - 1] \in Unwrap(step'.arg))]_vars
    /\ [](/\ InSync /\ pc \in {"done", "panicked"}
          /\ cyc.removed_hashes \cap cyc.unknown_hashes # {}
          => cyc.reload # "no")

\* C32: the render loop (a render pass or an input handler, each one hold of
\* the snapshot lock) never acts on the snapshot between two steps of one
\* incremental sync response, i.e. after the response's removal step and
\* before its last step.
C32_NoPartialResponseObserved ==
    [][(engineVars' = engineVars) =>
            ~(InSync /\ pc \in {"torrents", "categories", "categories_removed",
                                "reload", "server_state"})]_vars

\* C33: in every reachable state a selected category Category(i) has
\* 2 <= i < 2 + Len(categories), so categories[i - 2] is in range.
C33_SelectedCategoryInRange ==
    app.selected_category[1] = "Category" =>
        /\ 2 <= app.selected_category[2]
        /\ app.selected_category[2] < 2 + Len(app.categories)

\* ===================================================================
\* A session: the render loop's passes (draw, one event, the keep-running
\* check) interleaved with the dispatcher's critical sections, on a
\* snapshot with its view state.
\* ===================================================================
MaxTicks == 1

\* The closure of terminal.draw in run: the lists take their items from the
\* snapshot; draw_torrents indexes the categories, draw_info and draw_dialog
\* unwrap the selected torrent, draw_files unwraps the files.
draw(a) ==
    LET table == a.current_route \in {"Torrents", "Search", "Dialog", "Sort"}
        a1 == [a EXCEPT
                !.torrents_table.items_len =
                    IF table THEN Len(get_visible_torrents(a)) ELSE @,
                !.sort_list.items_len = IF a.current_route = "Sort" THEN 3 ELSE @,
                !.categories_list.items_len =
                    IF a.current_route = "Categories" THEN Len(a.categories) + 2 ELSE @,
                !.files_list.items_len =
                    IF a.current_route = "Files"
                    THEN Unwrap(a.current_torrent_files) ELSE @]
        unselected == SelectedPanics(a) \/ get_selected_torrent(a) = None
    IN  IF table /\ VisiblePanics(a) THEN Panics(a)
        ELSE IF a.current_route = "Info" /\ unselected THEN Panics(a)
        ELSE IF a.current_route = "Files" /\ a.current_torrent_files = None
        THEN Panics(a)
        ELSE IF a.is_connected /\ a.current_action # None /\ unselected THEN Panics(a1)
        ELSE Done(a1)

\* Keys of the job list, the info view and the dialog: delete, info, the
\* confirm toggle, leave or quit, and open or confirm.
SessionKeys == [code : {"x", "i", "h", "Esc", "Enter"}, modifiers : {"NONE"}]

\* The job list view, connected, as the first draw finds it.
InitSession ==
    /\ \E torrents \in InputTorrentLists, selected \in {None, Some(0), Some(1)} :
        app = InputApp(torrents, TRUE, None, selected, SelectedAll,
                       [current_route |-> "Torrents", current_action |-> None,
                        confirm |-> FALSE, search_value |-> <<>>, files |-> None,
                        cursor |-> 0])
    /\ rid = 0
    /\ pc = "idle"
    /\ should_reload = FALSE
    /\ ui_pc = "draw"
    /\ api_q = <<>>
    /\ ui_q = <<>>
    /\ app_lock = "free"
    /\ handler_lock = "free"
    /\ ui_pending = None
    /\ d_pc = "recv"
    /\ current_event = <<"Sync">>
    /\ replay = FALSE
    /\ input_event = None
    /\ event = None
    /\ credentials = TRUE
    /\ job = NoJob
    /\ cyc = NoCycle
    /\ step = [name |-> "input"]
    /\ seen_rid = 0
    /\ ledger = {}

\* run, the top of the loop: lock, terminal.draw
SessionDraw ==
    /\ ui_pc = "draw"
    /\ \E r \in draw(app) :
        /\ app' = r.app
        /\ ui_pc' = IF r.panic THEN "crashed" ELSE "select"
    /\ UNCHANGED <<engineVars, concVars>>

\* Event::Key(e): lock, the handler (the content path is a file).  The ghost
\* keeps the hash of the job that was focused when the handler opened the dialog.
SessionKey ==
    /\ ui_pc = "select"
    /\ \E key \in SessionKeys :
        \E r \in run_key(app, key, "file") :
            /\ IsSome(r.sent) => Len(api_q) < ApiQueueCap
            /\ app' = r.app
            /\ api_q' = IF IsSome(r.sent) THEN Append(api_q, Unwrap(r.sent)) ELSE api_q
            /\ ui_pc' = IF r.panic THEN "crashed" ELSE "check"
            /\ step' = [name |-> "key", input |-> key, sent |-> r.sent]
            /\ cyc' = IF r.app.current_route = "Dialog" /\ app.current_route # "Dialog"
                      THEN [op |-> "dialog",
                            torrent |-> IF Focused(app) = None THEN None
                                        ELSE Some(Unwrap(Focused(app)).hash)]
                      ELSE cyc
    /\ UNCHANGED <<rid, pc, should_reload, seen_rid, ledger, ui_q, app_lock, handler_lock,
                   ui_pending, d_pc, current_event, replay, input_event, event,
                   credentials, job>>

\* _ = sleep(timeout): lock, app.sync(), trace_send_sync_event_n += 1
SessionTick ==
    /\ ui_pc = "select"
    /\ app.trace_send_sync_event_n < MaxTicks
    /\ Len(api_q) < ApiQueueCap
    /\ app' = [app EXCEPT !.trace_send_sync_event_n = @ + 1]
    /\ api_q' = Append(api_q, <<"Sync">>)
    /\ ui_pc' = "check"
    /\ step' = [name |-> "tick", input |-> None, sent |-> Some(<<"Sync">>)]
    /\ UNCHANGED <<rid, pc, should_reload, cyc, seen_rid, ledger, ui_q, app_lock,
                   handler_lock, ui_pending, d_pc, current_event, replay, input_event,
                   event, credentials, job>>

\* the bottom of the loop: lock; if !app.is_running { break; }
SessionCheck ==
    /\ ui_pc = "check"
    /\ ui_pc' = IF app.is_running THEN "draw" ELSE "exit"
    /\ step' = [name |-> "input"]
    /\ UNCHANGED <<app, rid, pc, should_reload, cyc, seen_rid, ledger, concVars>>

\* The dispatcher takes the next intent and handle's first request returns:
\* a transport failure, or success (for Sync the response is a full update,
\* or it is not).
SessionHandle ==
    /\ ProcessRunning /\ d_pc = "recv" /\ api_q # <<>>
    /\ api_q' = Tail(api_q)
    /\ current_event' = Head(api_q)
    /\ \E outcome \in {"ok", "full_update", "External"} :
        CASE outcome = "External" ->
                /\ app.error_reconnection_attempt_n < MaxAttempts
                /\ d_pc' = "external" /\ pc' = pc
          [] outcome = "ok" ->
                IF Head(api_q) = <<"Sync">>
                THEN d_pc' = "apply" /\ pc' = "torrents_removed"
                ELSE d_pc' = "connected" /\ pc' = pc
          [] outcome = "full_update" ->
                /\ Head(api_q) = <<"Sync">>
                /\ d_pc' = "apply" /\ pc' = "reload"
    /\ UNCHANGED <<app, ui_pc, rid, should_reload, cyc, step, seen_rid, ledger, ui_q,
                   app_lock, handler_lock, ui_pending, replay, input_event, event,
                   credentials, job>>

\* sync: if let Some(torrents_removed) = data.torrents_removed
SessionTorrentsRemoved ==
    /\ ProcessRunning /\ d_pc = "apply" /\ pc = "torrents_removed"
    /\ \E torrents_removed \in OptionOf(SUBSET Hashes) :
        app' = IF IsSome(torrents_removed)
               THEN [app EXCEPT !.torrents = retain_torrents(@, Unwrap(torrents_removed))]
               ELSE app
    /\ pc' = "torrents"
    /\ UNCHANGED <<ui_pc, rid, should_reload, cyc, step, seen_rid, ledger, concVars>>

\* sync: if let Some(torrents) = data.torrents (a delta carries the state of
\* one job at most); a hash that is not in the snapshot asks for the reload.
SessionTorrents ==
    /\ ProcessRunning /\ d_pc = "apply" /\ pc = "torrents"
    /\ \E torrents \in OptionOf(UNION {[D -> [state : {Some(s) : s \in JobStates}]] :
                                            D \in {{}, {"h1"}, {"h2"}}}) :
        LET r == IF IsSome(torrents)
                 THEN merge_torrents(app.torrents, Unwrap(torrents),
                                     SetToSeq(DOMAIN Unwrap(torrents)))
                 ELSE [torrents |-> app.torrents, should_reload |-> FALSE]
        IN  /\ app' = [app EXCEPT !.torrents = r.torrents]
            /\ should_reload' = r.should_reload
            /\ IF r.should_reload
               THEN pc' = "reload" /\ d_pc' = d_pc
               ELSE pc' = "idle" /\ d_pc' = "connected"
    /\ UNCHANGED <<ui_pc, rid, cyc, step, seen_rid, ledger, api_q, ui_q, app_lock,
                   handler_lock, ui_pending, current_event, replay, input_event, event,
                   credentials, job>>

\* reload (full update, or forced by an unknown hash): the fetches fail in
\* transport, or the snapshot takes their results.
SessionReload ==
    /\ ProcessRunning /\ d_pc = "apply" /\ pc = "reload"
    /\ \/ /\ app.error_reconnection_attempt_n < MaxAttempts
          /\ d_pc' = "external"
          /\ UNCHANGED app
       \/ /\ \E torrents_info \in InputTorrentLists :
                app' = reload(app, [torrents_info |-> torrents_info, mode |-> "Global",
                                    categories |-> {"a"}])
          /\ d_pc' = "connected"
    /\ pc' = "idle"
    /\ should_reload' = FALSE
    /\ UNCHANGED <<ui_pc, rid, cyc, step, seen_rid, ledger, api_q, ui_q, app_lock,
                   handler_lock, ui_pending, current_event, replay, input_event, event,
                   credentials, job>>

NextSession ==
    \/ SessionDraw
    \/ SessionKey
    \/ SessionTick
    \/ SessionCheck
    \/ SessionHandle
    \/ SessionTorrentsRemoved
    \/ SessionTorrents
    \/ SessionReload
    \/ DispatcherConnected
    \/ DispatcherExternal

SpecSession == InitSession /\ [][NextSession]_vars

\* ===================================================================
\* The dialog, the views and the dispatcher (checked under SpecSession)
\* ===================================================================
\* C34: the job named in a Delete or DeleteFiles intent is the job that was
\* focused when the confirmation dialog was opened, whatever the dispatcher
\* has applied to the snapshot (removals, updates, reloads) in between.
C34_DeleteNamesTheJobOfTheDialog ==
    (/\ step.name = "key" /\ IsSome(step.sent)
     /\ Unwrap(step.sent)[1] \in {"Delete", "DeleteFiles"}) =>
        /\ cyc.op = "dialog"
        /\ cyc.torrent = Some(Unwrap(step.sent)[2])

\* ===================================================================
\* The confirmation dialog (checked under SpecInput)
\* ===================================================================
\* C35: an input event has enqueued a Delete or DeleteFiles intent only if it
\* was Enter in the dialog with a pending action, the confirm flag true and a
\* focused job, and then it enqueued exactly that one intent; an event that
\* opened the dialog left the confirm flag false; and Enter, q or Esc in the
\* dialog has cleared the pending action, reset the confirm flag and
\* returned to the job list view.
C35_DeleteOnlyByConfirmedDialog ==
    LET before == step.before
        in_dialog == /\ step.name = "key"
                     /\ before.is_connected /\ before.notification = None
                     /\ before.current_route = "Dialog"
    IN  step.name # "input" =>
            /\ (\E i \in 1..Len(api_q) : api_q[i][1] \in {"Delete", "DeleteFiles"}) =>
                    /\ in_dialog
                    /\ step.input = [code |-> "Enter", modifiers |-> "NONE"]
                    /\ before.current_action # None /\ before.confirm
                    /\ Focused(before) # None
                    /\ api_q = << <<Unwrap(before.current_action),
                                    Unwrap(Focused(before)).hash>> >>
            /\ (app.current_route = "Dialog" /\ before.current_route # "Dialog") =>
                    (~app.confirm /\ app.current_action # None)
            /\ (in_dialog /\ step.input \in [code : {"Enter", "q", "Esc"},
                                             modifiers : {"NONE"}]) =>
                    /\ app.current_action = None
                    /\ ~app.confirm
                    /\ app.current_route = "Torrents"

\* C36: whenever the view is the info view, or an action is pending while
\* connected, the cursor of the job table is on a job of the visible list;
\* so no draw and no handler that unwraps the selected job panics.
C36_InfoAndDialogHaveAFocusedJob ==
    /\ (app.current_route = "Info" \/ (app.is_connected /\ app.current_action # None)) =>
            Focused(app) # None
    /\ ui_pc # "crashed"

\* C37: in every reachable state an action is pending exactly when the view
\* is the confirmation dialog.
C37_PendingActionIffDialog ==
    (app.current_action # None) <=> (app.current_route = "Dialog")

\* ===================================================================
\* The connection state and the keep-running flag (checked under SpecConc)
\* ===================================================================
\* C38: in every reachable state the session is connected exactly when the
\* attempt counter is 0; and every step that changes one of the two fields is
\* one hold of the snapshot lock by the dispatcher that sets both: connected
\* with the counter 0 (handle), or disconnected with the counter one higher
\* (handle_error).
C38_ConnectedIffCounterZero ==
    /\ [](app.is_connected <=> app.error_reconnection_attempt_n = 0)
    /\ [][(\/ app'.is_connected # app.is_connected
           \/ app'.error_reconnection_attempt_n # app.error_reconnection_attempt_n) =>
            /\ app_lock = "free"
            /\ \/ /\ d_pc = "connected"
                  /\ app'.is_connected /\ app'.error_reconnection_attempt_n = 0
               \/ /\ d_pc = "external"
                  /\ ~app'.is_connected
                  /\ app'.error_reconnection_attempt_n =
                        app.error_reconnection_attempt_n + 1]_vars

\* A session that failed twice in a row handles an intent and is connected again.
C38_Witness ==
    /\ app.is_connected /\ app.error_reconnection_attempt_n = 0
    /\ job.attempt_n = 2 /\ job.ok_call /\ d_pc = "recv"

\* C39: the keep-running flag never goes from false back to true; the
\* forced-shutdown reason changes only in a step that leaves the flag false,
\* so a set reason implies a false flag; and when handle_error looks at a
\* NotAuthenticated failure with the flag false it returns to the loop: no
\* login is made and the intent is not run again.  A login is only ever
\* started from that look with the flag true, and a replay only from a login.
C39_KeepRunningFlagIsMonotonic ==
    /\ [][~app.is_running => ~app'.is_running]_vars
    /\ [][app'.forced_shutdown_reason # app.forced_shutdown_reason =>
            /\ ~app'.is_running
            /\ app'.forced_shutdown_reason # None]_vars
    /\ [](app.forced_shutdown_reason # None => ~app.is_running)
    /\ [][(d_pc = "check_running" /\ ~app.is_running /\ d_pc' # d_pc) =>
            /\ d_pc' = "recv"
            /\ ~replay'
            /\ job'.logins = job.logins
            /\ job'.ran = job.ran]_vars
    /\ [][(d_pc' = "login" /\ d_pc # "login") =>
            (d_pc = "check_running" /\ app.is_running)]_vars
    /\ [][(job'.logins > job.logins \/ (replay' /\ ~replay)) => d_pc = "login"]_vars

\* The render loop has cleared the flag while a call was in flight; the call
\* came back NotAuthenticated and the dispatcher is back at the loop with no
\* login made and the intent run once.
C39_Witness ==
    /\ ~app.is_running /\ app.forced_shutdown_reason = None
    /\ d_pc = "recv"
    /\ job.err = Some("NotAuthenticated")
    /\ job.logins = 0 /\ Len(job.ran) = 1

\* C40: no step of an incremental sync changes a job's hash or a field of
\* TorrentInfo that TorrentInfoSync does not have (num_seeds stands for
\* magnet_uri, num_seeds, num_leechs, num_complete and num_incomplete, none of
\* which has a replace_if_some! line): merging the `torrents` map and merging
\* server_state leave the hash and the seed count of every job, position by
\* position, as they were, whatever the delta carries for that job; a removal
\* only drops jobs, and every job that stays keeps both.
C40_DeltaKeepsHashAndCounts ==
    [][/\ step'.name \in {"torrents", "server_state"} =>
            /\ Len(app'.torrents) = Len(app.torrents)
            /\ \A i \in 1..Len(app.torrents) :
                  /\ app'.torrents[i].hash = app.torrents[i].hash
                  /\ app'.torrents[i].num_seeds = app.torrents[i].num_seeds
       /\ \A i \in 1..Len(app'.torrents) :
            \E j \in 1..Len(app.torrents) :
                /\ app'.torrents[i].hash = app.torrents[j].hash
                /\ app'.torrents[i].num_seeds = app.torrents[j].num_seeds]_vars

\* A delta that carries both of its fields for a job with one connected seed
\* has been merged: progress and state are the delta's, the seed count is not
\* touched.
C40_Witness ==
    /\ step.name = "torrents" /\ IsSome(step.arg)
    /\ "h2" \in DOMAIN Unwrap(step.arg)
    /\ Unwrap(step.arg)["h2"] = [progress |-> Some(1), state |-> Some("pausedDL")]
    /\ step.before = <<[hash |-> "h2", progress |-> 0, state |-> "downloading",
                        num_seeds |-> 1]>>
    /\ app.torrents = <<[hash |-> "h2", progress |-> 1, state |-> "pausedDL",
                         num_seeds |-> 1]>>

====
